---- MODULE Spec2Model ----
(***************************************************************************)
(* A model of the reactive runtime of vue-composition-api (Vue 2 plugin):  *)
(* effect scopes (src/src/apis/watch.ts 652-788), the watch engine and its *)
(* flush queues (src/src/apis/watch.ts 73-641).                            *)
(*                                                                         *)
(* The program is single threaded but re-entrant: user functions (the body *)
(* of run(fn), a cleanup registered by onScopeDispose) run in the middle   *)
(* of stop()/run() and may call the API again.  The model therefore keeps  *)
(* an explicit control stack `ctl` of activation frames and executes the   *)
(* methods in small steps; user code is a nondeterministic choice of API   *)
(* calls made while a user frame is on top of the control stack.           *)
(***************************************************************************)
EXTENDS Integers, Sequences, FiniteSets, TLC

(* ------------------------------ bounds -------------------------------- *)
\* scopes that may be created (effectScope() or bound to an instance)
MaxScopes == 3
\* cleanups that may be registered through onScopeDispose
MaxCleanups == 2
\* watchers that may be created in the scope model
MaxWatchers == 1
\* API calls made by user code / the host in one behaviour
MaxOps == 5
\* depth of the control stack (nesting of calls)
MaxDepth == 5

\* refs that may serve as watch sources
MaxRefs == 2
\* objects of a graph handed to the deep getter
MaxNodes == 2

\* objects of the heap: two made by user code, the others free for the
\* containers shallowReactive() makes
MaxObjs == 4
\* assignments to refs in one behaviour
MaxSets == 2
\* keys the reactive object may get
MaxKeys == 2
\* the greatest value written to the key of a shallow container
MaxShallowVal == 2
\* drains left by a throwing job after which the host emits no more signals
MaxAborts == 2
\* `undefined` for activeEffectScope / `null` for currentInstance and cleanup
None == 0
\* the fallback host used when no scope and no instance is current
FallbackVM == 0

ScopeIds == 1..MaxScopes
CleanupIds == 1..MaxCleanups
WatcherIds == 1..MaxWatchers
\* vm i is the host instance of scope i; vm 0 is the fallback host
VmIds == 0..MaxScopes

VARIABLES
  scopes,            \* EffectScopeImpl objects: active, effects, cleanups, bound
  effectScopeStack,  \* the global stack of scopes
  activeEffectScope, \* the global current scope (None = undefined)
  currentInstance,   \* runtimeContext.currentInstance (None = null)
  vms,               \* host instances: _isBeingDestroyed, _isDestroyed,
                     \*   hook:destroyed listeners, _watchers
  watchers,          \* Vue watchers created by watch()/watchEffect()
  ctl,               \* control stack of activation frames
  exc,               \* an exception is propagating
  runResult,         \* what the last completed run() call returned
  ops,               \* number of API calls made so far
  ran,               \* ghost: how often each scope cleanup has run
  cleanupInfo,       \* ghost: owner of each cleanup, and whether it was
                     \*   registered after its owner's stop() had begun
  scopeInfo,         \* ghost: per scope, facts about its history
  watcherInfo,       \* ghost: per watcher, facts about its history
  threw              \* ghost: some user function has thrown

VARIABLES
  refs,              \* value of each ref
  ws,                \* watch(): per watcher its options, host, Vue watcher
                     \*   state (active, value) and shiftCallback state
  envInstalled,      \* installWatchEnv(vm) calls on the component host
  preQueue,          \* vm[WatcherPreFlushQueueKey] of the component host
  postQueue,         \* vm[WatcherPostFlushQueueKey] of the component host
  vueQueue,          \* Vue's scheduler queue of watchers waiting to run
  ticks,             \* callbacks handed to nextTick, in order
  calls,             \* ghost: the invocations of user callbacks, in order
  runLog,            \* ghost: the runs of Vue watchers that called back
  nsets,             \* ghost: number of ref assignments so far
  keys,              \* number of keys of the reactive object
  flog,              \* ghost: what the schedulers and queues did, in order
  njobs,             \* ghost: number of jobs pushed on a queue so far
  sched              \* ghost: fallback flushes handed to nextTick since
                     \*   the current tick began

VARIABLES
  graph,             \* the properties of each object: the values they hold
  rawSet,            \* rawSet of utils/sets: the objects marked raw
  seen,              \* the `seen` set of the traversal in progress
  tstack,            \* the activations of traverse(): object and position
  tphase,            \* the deep getter has not run, is running, has returned
  entered,           \* ghost: how often traverse() went into each object
  tret               \* what the outermost traverse() returned

VARIABLES
  cdep,              \* the values of the refs a computed getter may read
  cell,              \* the computed cell: its closure and its lazy watcher
  clog               \* ghost: what the last operation on the cell did

VARIABLES
  heap,              \* the objects handed to reactive() and its siblings
  rval,              \* the inner value of each Ref
  last               \* ghost: the value the last step wrote to a key

VARIABLES
  observed           \* the key of a container made by shallowReactive()

engineVars == <<refs, ws, envInstalled, preQueue, postQueue, vueQueue, ticks,
                calls, runLog, nsets, keys, flog, njobs, sched>>

traverseVars == <<graph, rawSet, seen, tstack, tphase, entered, tret>>

computedVars == <<cdep, cell, clog>>

heapVars == <<heap, rval, last>>

shallowVars == <<observed>>

dataVars == <<traverseVars, computedVars, heapVars, shallowVars>>

watchVars == <<engineVars, dataVars>>

scopeVars == <<scopes, effectScopeStack, activeEffectScope, currentInstance,
               vms, watchers, ctl, exc, runResult, ops, ran, cleanupInfo,
               scopeInfo, watcherInfo, threw>>

(* ------------------------------ helpers ------------------------------- *)
Last(q) == q[Len(q)]
Front(q) == SubSeq(q, 1, Len(q) - 1)
Range(q) == {q[k] : k \in 1..Len(q)}

\* activation frames
Frame(kind, id, pc, i, n) ==
  [kind |-> kind, id |-> id, pc |-> pc, i |-> i, n |-> n,
   saved |-> <<>>, savedActive |-> None]
FnFrame(s) ==
  [kind |-> "fn", id |-> s, pc |-> "body", i |-> 0, n |-> 0,
   saved |-> effectScopeStack, savedActive |-> activeEffectScope]

Top == Last(ctl)
\* user code is executing: top level, the body of run(fn), a scope cleanup,
\* or the fn of activateCurrentInstance (setup)
UserTurn ==
  /\ ~exc
  /\ IF ctl = <<>> THEN TRUE ELSE Top.kind \in {"fn", "cleanup", "setup"}
CanCall == UserTurn /\ ops < MaxOps
CanPush == CanCall /\ Len(ctl) < MaxDepth

NewScopeRec(bound) ==
  [made |-> TRUE, active |-> TRUE, effects |-> <<>>, cleanups |-> <<>>,
   bound |-> bound]
NoScopeRec ==
  [made |-> FALSE, active |-> FALSE, effects |-> <<>>, cleanups |-> <<>>,
   bound |-> FALSE]
Made == {s \in ScopeIds : scopes[s].made}
nextScope == Cardinality(Made) + 1
nextCleanup == Cardinality({c \in CleanupIds : cleanupInfo[c].owner # None}) + 1
nextWatcher == Cardinality({w \in WatcherIds : watchers[w].made}) + 1

(* ------------------------- EffectScopeImpl.on/off --------------------- *)
\* on(): if (this.active) { effectScopeStack.push(this); activeEffectScope = this }
OnStack(s) ==
  IF scopes[s].active THEN Append(effectScopeStack, s) ELSE effectScopeStack
\* variant: on() makes the scope current whether or not it is active
OnActiveAlways(s) == s
OnActive(s) ==
  IF scopes[s].active THEN s ELSE activeEffectScope

\* Array.prototype.pop on an empty array leaves it empty
PopStack(q) == IF q = <<>> THEN q ELSE Front(q)
TopOrNone(q) == IF q = <<>> THEN None ELSE Last(q)
\* off(): if (this.active) { effectScopeStack.pop();
\*          activeEffectScope = effectScopeStack[effectScopeStack.length - 1] }
OffStack(s) ==
  IF scopes[s].active THEN PopStack(effectScopeStack) ELSE effectScopeStack
OffActive(s) ==
  IF scopes[s].active THEN TopOrNone(PopStack(effectScopeStack))
  ELSE activeEffectScope

\* getCurrentScope()
getCurrentScope == activeEffectScope

(* ----------------------- scope creation and recording ----------------- *)
\* recordEffectScope(effect): scope = activeEffectScope; the parent that
\* records the new scope, or None when the fallback branch is taken
RecordParent ==
  IF activeEffectScope # None /\ scopes[activeEffectScope].active
  THEN activeEffectScope ELSE None

\* variant: the `if (!detached)` test is dropped
IsRecordedAlways(detached) == RecordParent # None
\* new EffectScope(detached): if (!detached) recordEffectScope(this)
IsRecorded(detached) == ~detached /\ RecordParent # None
\* ... else: getCurrentInstance()?.proxy.$on('hook:destroyed', () => effect.stop())
IsHooked(detached) ==
  ~detached /\ RecordParent = None /\ currentInstance # None

ScopeInfoInit ==
  [parent |-> None, current |-> None, currentActive |-> FALSE,
   detached |-> FALSE, late |-> FALSE, begun |-> FALSE, stopCalls |-> 0]

\* effectScope(detached)
EffectScopeCall(detached) ==
  /\ CanCall
  /\ nextScope <= MaxScopes
  /\ LET id == nextScope
         P == RecordParent
     IN /\ scopes' = [x \in ScopeIds |->
                        IF x = id THEN NewScopeRec(FALSE)
                        ELSE IF IsRecorded(detached) /\ x = P
                             THEN [scopes[x] EXCEPT !.effects = Append(@, id)]
                             ELSE scopes[x]]
        /\ vms' = [v \in VmIds |->
                     IF IsHooked(detached) /\ v = currentInstance
                     THEN [vms[v] EXCEPT !.hooks = Append(@, id)]
                     ELSE vms[v]]
        /\ scopeInfo' = [scopeInfo EXCEPT ![id] =
             [ScopeInfoInit EXCEPT
                !.parent = IF IsRecorded(detached) THEN P ELSE None,
                !.current = activeEffectScope,
                !.currentActive = (activeEffectScope # None
                                   /\ scopes[activeEffectScope].active),
                !.detached = detached,
                !.late = (activeEffectScope # None
                          /\ scopeInfo[activeEffectScope].begun)]]
  /\ ops' = ops + 1
  /\ UNCHANGED watchVars
  /\ UNCHANGED <<effectScopeStack, activeEffectScope, currentInstance,
                 watchers, ctl, exc, runResult, ran, cleanupInfo,
                 watcherInfo, threw>>

\* toVue3ComponentInstance(vm) -> bindCurrentScopeToVM(instance): the host
\* creates a component instance; its scope is bound to the instance's vm and
\* stopped by the vm's hook:destroyed signal
BindCurrentScopeToVM ==
  /\ CanCall
  /\ nextScope <= MaxScopes
  /\ LET id == nextScope
     IN /\ scopes' = [scopes EXCEPT ![id] = NewScopeRec(TRUE)]
        /\ vms' = [vms EXCEPT ![id].hooks = Append(@, id)]
        /\ scopeInfo' = [scopeInfo EXCEPT ![id] = ScopeInfoInit]
  /\ ops' = ops + 1
  /\ UNCHANGED watchVars
  /\ UNCHANGED <<effectScopeStack, activeEffectScope, currentInstance,
                 watchers, ctl, exc, runResult, ran, cleanupInfo,
                 watcherInfo, threw>>

\* onScopeDispose(fn): if (activeEffectScope) activeEffectScope.cleanups.push(fn)
OnScopeDispose ==
  /\ CanCall
  /\ nextCleanup <= MaxCleanups
  /\ IF activeEffectScope # None
     THEN /\ scopes' = [scopes EXCEPT ![activeEffectScope].cleanups =
                          Append(@, nextCleanup)]
          /\ cleanupInfo' = [cleanupInfo EXCEPT ![nextCleanup] =
               [owner |-> activeEffectScope,
                late |-> scopeInfo[activeEffectScope].begun]]
     ELSE UNCHANGED <<scopes, cleanupInfo>>
  /\ ops' = ops + 1
  /\ UNCHANGED watchVars
  /\ UNCHANGED <<effectScopeStack, activeEffectScope, currentInstance, vms,
                 watchers, ctl, exc, runResult, ran, scopeInfo,
                 watcherInfo, threw>>

(* ------------------------- EffectScopeImpl.run ------------------------ *)
\* run(fn): if (this.active) { try { this.on(); return fn() } finally { this.off() } }
\* variant: the `if (this.active)` test of run() is dropped
RunEntersAlways(s) == TRUE
RunEnters(s) == scopes[s].active

RunCall(s) ==
  /\ CanCall
  /\ s \in Made
  /\ IF RunEnters(s)
     THEN /\ Len(ctl) < MaxDepth
          /\ effectScopeStack' = OnStack(s)
          /\ activeEffectScope' = OnActive(s)
          /\ ctl' = Append(ctl, FnFrame(s))
          /\ UNCHANGED runResult
     ELSE \* warn(`cannot run an inactive effect scope.`); return
          /\ runResult' = "undefined"
          /\ UNCHANGED <<effectScopeStack, activeEffectScope, ctl>>
  /\ ops' = ops + 1
  /\ UNCHANGED watchVars
  /\ UNCHANGED <<scopes, currentInstance, vms, watchers, exc, ran,
                 cleanupInfo, scopeInfo, watcherInfo, threw>>

\* the running user function returns normally
Return ==
  /\ UserTurn
  /\ ctl # <<>>
  /\ Top.kind # "setup"
  /\ IF Top.kind = "fn"
     THEN \* finally { this.off() }, then run() returns fn's result
          /\ effectScopeStack' = OffStack(Top.id)
          /\ activeEffectScope' = OffActive(Top.id)
          /\ runResult' = "value"
     ELSE UNCHANGED <<effectScopeStack, activeEffectScope, runResult>>
  /\ ctl' = Front(ctl)
  /\ UNCHANGED watchVars
  /\ UNCHANGED <<scopes, currentInstance, vms, watchers, exc, ops, ran,
                 cleanupInfo, scopeInfo, watcherInfo, threw>>

\* the running user function throws
Throw ==
  /\ CanCall
  /\ ctl # <<>>
  /\ Top.kind # "setup"
  /\ IF Top.kind = "fn"
     THEN /\ effectScopeStack' = OffStack(Top.id)
          /\ activeEffectScope' = OffActive(Top.id)
     ELSE UNCHANGED <<effectScopeStack, activeEffectScope>>
  /\ ctl' = Front(ctl)
  /\ exc' = TRUE
  /\ threw' = TRUE
  /\ ops' = ops + 1
  /\ UNCHANGED watchVars
  /\ UNCHANGED <<scopes, currentInstance, vms, watchers, runResult, ran,
                 cleanupInfo, scopeInfo, watcherInfo>>

\* an exception passes through the frame on top of the control stack
Unwind ==
  /\ exc
  /\ IF ctl = <<>> THEN TRUE ELSE Top.kind # "setup"
  /\ IF ctl = <<>>
     THEN \* uncaught: reported by the runtime, the program goes on
          /\ exc' = FALSE
          /\ UNCHANGED <<effectScopeStack, activeEffectScope, ctl>>
     ELSE IF Top.kind = "destroy"
     THEN \* Vue's $emit calls each listener through invokeWithErrorHandling
          /\ exc' = FALSE
          /\ UNCHANGED <<effectScopeStack, activeEffectScope, ctl>>
     ELSE IF Top.kind = "fn"
     THEN \* an outer run(): finally { this.off() }
          /\ effectScopeStack' = OffStack(Top.id)
          /\ activeEffectScope' = OffActive(Top.id)
          /\ ctl' = Front(ctl)
          /\ UNCHANGED exc
     ELSE \* stop() and forEach have no handler: they are abandoned
          /\ ctl' = Front(ctl)
          /\ UNCHANGED <<effectScopeStack, activeEffectScope, exc>>
  /\ UNCHANGED watchVars
  /\ UNCHANGED <<scopes, currentInstance, vms, watchers, runResult, ops, ran,
                 cleanupInfo, scopeInfo, watcherInfo, threw>>

(* ----------------------- activateCurrentInstance ---------------------- *)
\* off() and on() of a scope, on the stack q
offQ(q, s) == IF scopes[s].active THEN PopStack(q) ELSE q
onQ(q, s) == IF scopes[s].active THEN Append(q, s) ELSE q

\* setCurrentInstance(instance): prev?.scope.off(); currentInstance =
\* instance; currentInstance?.scope.on() - the stack it leaves
setCurrentInstanceStack(instance) ==
  LET q == IF currentInstance = None THEN effectScopeStack
           ELSE offQ(effectScopeStack, currentInstance)
  IN  IF instance = None THEN q ELSE onQ(q, instance)

\* ... and the activeEffectScope it leaves
setCurrentInstanceActive(instance) ==
  LET a == IF currentInstance = None \/ ~scopes[currentInstance].active
             THEN activeEffectScope
             ELSE TopOrNone(PopStack(effectScopeStack))
  IN  IF instance # None /\ scopes[instance].active THEN instance ELSE a

\* the activation of activateCurrentInstance: i holds preVm, n tells
\* whether onError was passed
SetupFrame(instance, onError) ==
  [kind |-> "setup", id |-> instance, pc |-> "body", i |-> currentInstance,
   n |-> IF onError THEN 1 ELSE 0,
   saved |-> effectScopeStack, savedActive |-> activeEffectScope]

\* activateCurrentInstance(instance, fn, onError): up to the call of fn
ActivateCurrentInstance(instance, onError) ==
  /\ CanPush
  /\ instance \in Made
  /\ scopes[instance].bound
  /\ ctl' = Append(ctl, SetupFrame(instance, onError))
  /\ effectScopeStack' = setCurrentInstanceStack(instance)
  /\ activeEffectScope' = setCurrentInstanceActive(instance)
  /\ currentInstance' = instance
  /\ ops' = ops + 1
  /\ UNCHANGED watchVars
  /\ UNCHANGED <<scopes, vms, watchers, exc, runResult, ran, cleanupInfo,
                 scopeInfo, watcherInfo, threw>>

\* finally { setCurrentInstance(preVm) }
SetupFinally ==
  /\ effectScopeStack' = setCurrentInstanceStack(Top.i)
  /\ activeEffectScope' = setCurrentInstanceActive(Top.i)
  /\ currentInstance' = Top.i
  /\ ctl' = Front(ctl)

\* fn(instance) returns
SetupReturn ==
  /\ UserTurn
  /\ ctl # <<>>
  /\ Top.kind = "setup"
  /\ SetupFinally
  /\ UNCHANGED watchVars
  /\ UNCHANGED <<scopes, vms, watchers, exc, runResult, ops, ran,
                 cleanupInfo, scopeInfo, watcherInfo, threw>>

\* fn(instance) throws, or an exception of a call it made reaches it:
\* catch (err) { if (onError) onError(err) else throw err }
SetupThrow ==
  /\ ctl # <<>>
  /\ Top.kind = "setup"
  /\ IF exc THEN UNCHANGED ops ELSE ops < MaxOps /\ ops' = ops + 1
  /\ exc' = (Top.n = 0)
  /\ threw' = TRUE
  /\ SetupFinally
  /\ UNCHANGED watchVars
  /\ UNCHANGED <<scopes, vms, watchers, runResult, ran, cleanupInfo,
                 scopeInfo, watcherInfo>>

\* scope.on() called by user code
On(s) ==
  /\ CanCall
  /\ s \in Made
  /\ Len(effectScopeStack) < MaxDepth
  /\ effectScopeStack' = OnStack(s)
  /\ activeEffectScope' = OnActive(s)
  /\ ops' = ops + 1
  /\ UNCHANGED watchVars
  /\ UNCHANGED <<scopes, currentInstance, vms, watchers, ctl, exc, runResult,
                 ran, cleanupInfo, scopeInfo, watcherInfo, threw>>

\* scope.off() called by user code
Off(s) ==
  /\ CanCall
  /\ s \in Made
  /\ effectScopeStack' = OffStack(s)
  /\ activeEffectScope' = OffActive(s)
  /\ ops' = ops + 1
  /\ UNCHANGED watchVars
  /\ UNCHANGED <<scopes, currentInstance, vms, watchers, ctl, exc, runResult,
                 ran, cleanupInfo, scopeInfo, watcherInfo, threw>>

(* ------------------------- EffectScopeImpl.stop ----------------------- *)
\* a call of scope.stop() by user code
StopCall(s) ==
  /\ CanPush
  /\ s \in Made
  /\ ctl' = Append(ctl, Frame("stop", s, "begin", 0, 0))
  /\ scopeInfo' = [scopeInfo EXCEPT ![s].stopCalls = @ + 1]
  /\ ops' = ops + 1
  /\ UNCHANGED watchVars
  /\ UNCHANGED <<scopes, effectScopeStack, activeEffectScope, currentInstance,
                 vms, watchers, exc, runResult, ran, cleanupInfo,
                 watcherInfo, threw>>

SetTop(f) == [ctl EXCEPT ![Len(ctl)] = f]

\* stop(): if (this.active) {
StopBegin ==
  /\ ~exc /\ ctl # <<>> /\ Top.kind = "stop" /\ Top.pc = "begin"
  /\ IF ~scopes[Top.id].active
     THEN /\ ctl' = Front(ctl)
          /\ UNCHANGED scopeInfo
     ELSE \* this.vm.$destroy()
          \* (the frame also remembers, as a ghost, the children recorded
          \* when this call began)
          /\ ctl' = Append(SetTop([Top EXCEPT !.pc = "effects0",
                                               !.saved = scopes[Top.id].effects]),
                           Frame("destroy", Top.id, "begin", 0, 0))
          /\ scopeInfo' = [scopeInfo EXCEPT ![Top.id].begun = TRUE]
  /\ UNCHANGED watchVars
  /\ UNCHANGED <<scopes, effectScopeStack, activeEffectScope, currentInstance,
                 vms, watchers, exc, runResult, ops, ran, cleanupInfo,
                 watcherInfo, threw>>

\* this.effects.forEach((e) => e.stop()): forEach reads the length once, so
\* children appended during the loop are not visited
StopEffects ==
  /\ ~exc /\ ctl # <<>> /\ Top.kind = "stop"
  /\ Top.pc \in {"effects0", "effects"}
  /\ LET s == Top.id IN
     IF Top.pc = "effects0"
     THEN ctl' = SetTop([Top EXCEPT !.pc = "effects", !.i = 1,
                                    !.n = Len(scopes[s].effects)])
     ELSE IF Top.i <= Top.n
     THEN ctl' = Append(SetTop([Top EXCEPT !.i = @ + 1]),
                        Frame("stop", scopes[s].effects[Top.i], "begin", 0, 0))
     ELSE ctl' = SetTop([Top EXCEPT !.pc = "cleanups", !.i = 1,
                                    !.n = Len(scopes[s].cleanups)])
  /\ UNCHANGED watchVars
  /\ UNCHANGED <<scopes, effectScopeStack, activeEffectScope, currentInstance,
                 vms, watchers, exc, runResult, ops, ran, cleanupInfo,
                 scopeInfo, watcherInfo, threw>>

\* this.cleanups.forEach((cleanup) => cleanup()); this.active = false
StopCleanups ==
  /\ ~exc /\ ctl # <<>> /\ Top.kind = "stop" /\ Top.pc = "cleanups"
  /\ LET s == Top.id IN
     IF Top.i <= Top.n
     THEN LET c == scopes[s].cleanups[Top.i] IN
          /\ ran' = [ran EXCEPT ![c] = @ + 1]
          /\ ctl' = Append(SetTop([Top EXCEPT !.i = @ + 1]),
                           Frame("cleanup", c, "body", s, 0))
          /\ UNCHANGED scopes
     ELSE /\ scopes' = [scopes EXCEPT ![s].active = FALSE]
          /\ ctl' = Front(ctl)
          /\ UNCHANGED ran
  /\ UNCHANGED watchVars
  /\ UNCHANGED <<effectScopeStack, activeEffectScope, currentInstance, vms,
                 watchers, exc, runResult, ops, cleanupInfo, scopeInfo,
                 watcherInfo, threw>>

(* ------------------------------ watchers ------------------------------ *)
\* getCurrentScopeVM(): getCurrentScope()?.vm || getCurrentInstance()?.proxy
getCurrentScopeVM ==
  IF activeEffectScope # None THEN activeEffectScope ELSE currentInstance

\* getWatcherVM(): the current scope's host, or the fallback host
getWatcherVM ==
  IF getCurrentScopeVM = None THEN FallbackVM ELSE getCurrentScopeVM

NoWatcherRec == [made |-> FALSE, vm |-> FallbackVM, active |-> FALSE,
                 cleanup |-> None, sync |-> FALSE, pending |-> 0]
\* ghost: the scope current at creation; the cleanups registered so far
\* (gen), those that throw (bad), those run (runs); the order of cleanup
\* runs, callback bodies and teardowns (trace); stop-handle calls (stops)
WatcherInfoInit == [scope |-> None, late |-> FALSE, gen |-> 0, runs |-> <<>>,
                    trace |-> <<>>, bad |-> {}, stops |-> 0]

\* watch(source, cb, options) / watchEffect(fn, options), with flush 'sync'
\* or not: createWatcher(getWatcherVM(), ...); vm.$watch pushes the new
\* watcher on vm._watchers
WatchCall(sync) ==
  /\ CanCall
  /\ nextWatcher <= MaxWatchers
  /\ LET w == nextWatcher
         vm == getWatcherVM
     IN /\ watchers' = [watchers EXCEPT ![w] =
             [made |-> TRUE, vm |-> vm, active |-> TRUE, cleanup |-> None,
              sync |-> sync, pending |-> 0]]
        /\ vms' = [vms EXCEPT ![vm].watchers = Append(@, w)]
        /\ watcherInfo' = [watcherInfo EXCEPT ![w] =
             [WatcherInfoInit EXCEPT
                !.scope = activeEffectScope,
                !.late = (activeEffectScope # None
                          /\ scopeInfo[activeEffectScope].begun)]]
  /\ ops' = ops + 1
  /\ UNCHANGED watchVars
  /\ UNCHANGED <<scopes, effectScopeStack, activeEffectScope, currentInstance,
                 ctl, exc, runResult, ran, cleanupInfo, scopeInfo, threw>>

\* createScheduler: the callback runs inline when the watcher is sync or its
\* host is the fallback host, and goes through the host's queue otherwise
Inline(w) == watchers[w].sync \/ watchers[w].vm = FallbackVM

\* variant: the wrapper made by registerCleanup has no try/catch
CleanupUncaught(w) == FALSE
\* registerCleanup: cleanup = () => { try { fn() } catch (error) { logError } }
CleanupCaught(w) == TRUE

\* runCleanup() lets an exception of the cleanup escape
CleanupThrows(w) ==
  /\ watchers[w].cleanup # None
  /\ watchers[w].cleanup \in watcherInfo[w].bad
  /\ ~CleanupCaught(w)

\* variant: runCleanup() forgets `cleanup = null`
CleanupKept(c) == c
\* runCleanup(): if (cleanup) { cleanup(); cleanup = null }: the slot afterwards
CleanupAfterRun(c) == None
\* the slot after runCleanup(): cleared unless the exception escaped
SlotAfterRunCleanup(w) ==
  IF CleanupThrows(w) THEN watchers[w].cleanup
  ELSE CleanupAfterRun(watchers[w].cleanup)
\* ghost: the cleanups of watcher w run so far, after runCleanup()
RunsAfterCleanup(w) ==
  IF watchers[w].cleanup # None
  THEN Append(watcherInfo[w].runs, watchers[w].cleanup)
  ELSE watcherInfo[w].runs

Ev(e, g) == [e |-> e, g |-> g]
\* ghost: what runCleanup() adds to the trace
CleanupEvents(w) ==
  IF watchers[w].cleanup # None THEN <<Ev("cleanup", watchers[w].cleanup)>>
  ELSE <<>>

\* variant: applyCb calls cb before runCleanup()
CallbackEventsLate(w, g) == <<Ev("cb", g)>> \o CleanupEvents(w)
\* applyCb: runCleanup(), then cb(n, o, registerCleanup)
CallbackEvents(w, g) == CleanupEvents(w) \o <<Ev("cb", g)>>

\* the cleanup cb registers through registerCleanup during this invocation:
\* none, one that returns, or one that throws
Registers == {"none", "returns", "throws"}
NewGen(w, registers) ==
  IF registers = "none" THEN None ELSE watcherInfo[w].gen + 1

\* applyCb(n, o): runCleanup(); cb(n, o, registerCleanup)
ApplyCbSlot(w, registers) ==
  IF CleanupThrows(w) THEN watchers[w].cleanup
  ELSE IF registers # "none" THEN NewGen(w, registers)
  ELSE SlotAfterRunCleanup(w)

ApplyCbInfo(w, registers) ==
  IF CleanupThrows(w)
  THEN [watcherInfo[w] EXCEPT !.runs = RunsAfterCleanup(w),
                              !.trace = @ \o CleanupEvents(w)]
  ELSE [watcherInfo[w] EXCEPT
          !.runs = RunsAfterCleanup(w),
          !.trace = @ \o CallbackEvents(w, NewGen(w, registers)),
          !.gen = IF registers # "none" THEN @ + 1 ELSE @,
          !.bad = IF registers = "throws" THEN @ \cup {watcherInfo[w].gen + 1}
                  ELSE @]

\* a trigger of an inline watcher: its callback is invoked on the spot
WatcherCallback(w, registers) ==
  /\ CanCall
  /\ watchers[w].made
  /\ watchers[w].active
  /\ Inline(w)
  /\ watchers' = [watchers EXCEPT ![w].cleanup = ApplyCbSlot(w, registers)]
  /\ watcherInfo' = [watcherInfo EXCEPT ![w] = ApplyCbInfo(w, registers)]
  /\ exc' = (exc \/ CleanupThrows(w))
  /\ ops' = ops + 1
  /\ UNCHANGED watchVars
  /\ UNCHANGED <<scopes, effectScopeStack, activeEffectScope, currentInstance,
                 vms, ctl, runResult, ran, cleanupInfo, scopeInfo, threw>>

\* a trigger of a queued watcher: queueFlushJob pushes () => applyCb(n, o)
\* on the host's pre or post queue
WatcherQueue(w) ==
  /\ CanCall
  /\ watchers[w].made
  /\ watchers[w].active
  /\ ~Inline(w)
  /\ watchers' = [watchers EXCEPT ![w].pending = @ + 1]
  /\ ops' = ops + 1
  /\ UNCHANGED watchVars
  /\ UNCHANGED <<scopes, effectScopeStack, activeEffectScope, currentInstance,
                 vms, ctl, exc, runResult, ran, cleanupInfo, scopeInfo,
                 watcherInfo, threw>>

\* flushQueue, from a host signal or the fallback next tick, calls a queued
\* job of the watcher
WatcherJob(w, registers) ==
  /\ ~exc
  /\ ctl = <<>>
  /\ watchers[w].pending > 0
  /\ watchers' = [watchers EXCEPT ![w].cleanup = ApplyCbSlot(w, registers),
                                  ![w].pending = @ - 1]
  /\ watcherInfo' = [watcherInfo EXCEPT ![w] = ApplyCbInfo(w, registers)]
  /\ exc' = (exc \/ CleanupThrows(w))
  /\ UNCHANGED watchVars
  /\ UNCHANGED <<scopes, effectScopeStack, activeEffectScope, currentInstance,
                 vms, ctl, runResult, ops, ran, cleanupInfo, scopeInfo, threw>>

RemoveFrom(q, x) == SelectSeq(q, LAMBDA y : y # x)

\* the patched watcher.teardown(): Vue's Watcher.teardown
\*   if (this.active) { if (!vm._isBeingDestroyed) remove(vm._watchers, this);
\*                      ...; this.active = false }
\* followed by runCleanup()
TeardownWatchers(w) ==
  [watchers EXCEPT ![w].active = FALSE, ![w].cleanup = SlotAfterRunCleanup(w)]
TeardownVms(w) ==
  LET vm == watchers[w].vm IN
  IF watchers[w].active /\ ~vms[vm].beingDestroyed
  THEN [vms EXCEPT ![vm].watchers = RemoveFrom(@, w)]
  ELSE vms
\* ghost: the teardown and the cleanup it runs
TeardownInfo(w) ==
  [watcherInfo[w] EXCEPT
     !.runs = RunsAfterCleanup(w),
     !.trace = @ \o <<Ev("teardown", 0)>> \o CleanupEvents(w)]

\* the stop handle returned by watch()/watchEffect()
StopHandle(w) ==
  /\ CanCall
  /\ watchers[w].made
  /\ watchers' = TeardownWatchers(w)
  /\ vms' = TeardownVms(w)
  /\ watcherInfo' = [watcherInfo EXCEPT
                       ![w] = [TeardownInfo(w) EXCEPT !.stops = @ + 1]]
  /\ exc' = (exc \/ CleanupThrows(w))
  /\ ops' = ops + 1
  /\ UNCHANGED watchVars
  /\ UNCHANGED <<scopes, effectScopeStack, activeEffectScope, currentInstance,
                 ctl, runResult, ran, cleanupInfo, scopeInfo, threw>>

(* --------------------------- Vue's vm.$destroy ------------------------ *)
\* the host destroys a component instance (unmount)
HostDestroy(v) ==
  /\ CanPush
  /\ v \in Made
  /\ scopes[v].bound
  /\ ctl' = Append(ctl, Frame("destroy", v, "begin", 0, 0))
  /\ ops' = ops + 1
  /\ UNCHANGED watchVars
  /\ UNCHANGED <<scopes, effectScopeStack, activeEffectScope, currentInstance,
                 vms, watchers, exc, runResult, ran, cleanupInfo, scopeInfo,
                 watcherInfo, threw>>

\* Vue.prototype.$destroy (Vue 2.6):
\*   if (vm._isBeingDestroyed) return
\*   vm._isBeingDestroyed = true
\*   let i = vm._watchers.length; while (i--) vm._watchers[i].teardown()
\*   vm._isDestroyed = true
\*   callHook(vm, 'destroyed')    -- emits hook:destroyed to its listeners
\*   vm.$off()
DestroyStep ==
  /\ ~exc /\ ctl # <<>> /\ Top.kind = "destroy"
  /\ LET v == Top.id IN
     CASE Top.pc = "begin" ->
            IF vms[v].beingDestroyed
            THEN /\ ctl' = Front(ctl)
                 /\ UNCHANGED <<vms, watchers, watcherInfo>>
            ELSE /\ vms' = [vms EXCEPT ![v].beingDestroyed = TRUE]
                 /\ ctl' = SetTop([Top EXCEPT !.pc = "watchers",
                                              !.i = Len(vms[v].watchers)])
                 /\ UNCHANGED <<watchers, watcherInfo>>
       [] Top.pc = "watchers" ->
            IF Top.i >= 1
            THEN LET w == vms[v].watchers[Top.i] IN
                 /\ watchers' = TeardownWatchers(w)
                 /\ vms' = TeardownVms(w)
                 /\ watcherInfo' = [watcherInfo EXCEPT
                                      ![w] = TeardownInfo(w)]
                 /\ ctl' = SetTop([Top EXCEPT !.i = @ - 1])
            ELSE /\ vms' = [vms EXCEPT ![v].destroyed = TRUE]
                 /\ ctl' = SetTop([Top EXCEPT !.pc = "hook", !.i = 1,
                                              !.n = Len(vms[v].hooks)])
                 /\ UNCHANGED <<watchers, watcherInfo>>
       [] Top.pc = "hook" ->
            IF Top.i <= Top.n
            THEN \* the listener () => scope.stop()
                 /\ ctl' = Append(SetTop([Top EXCEPT !.i = @ + 1]),
                                  Frame("stop", vms[v].hooks[Top.i], "begin",
                                        0, 0))
                 /\ UNCHANGED <<vms, watchers, watcherInfo>>
            ELSE /\ vms' = [vms EXCEPT ![v].hooks = <<>>]
                 /\ ctl' = Front(ctl)
                 /\ UNCHANGED <<watchers, watcherInfo>>
  /\ UNCHANGED watchVars
  /\ UNCHANGED <<scopes, effectScopeStack, activeEffectScope, currentInstance,
                 exc, runResult, ops, ran, cleanupInfo, scopeInfo, threw>>

(* ------------------------------ behaviours ---------------------------- *)
ScopeInit ==
  /\ scopes = [s \in ScopeIds |-> NoScopeRec]
  /\ effectScopeStack = <<>>
  /\ activeEffectScope = None
  /\ currentInstance = None
  /\ vms = [v \in VmIds |-> [beingDestroyed |-> FALSE, destroyed |-> FALSE,
                             hooks |-> <<>>, watchers |-> <<>>]]
  /\ watchers = [w \in WatcherIds |-> NoWatcherRec]
  /\ ctl = <<>>
  /\ exc = FALSE
  /\ runResult = "none"
  /\ ops = 0
  /\ ran = [c \in CleanupIds |-> 0]
  /\ cleanupInfo = [c \in CleanupIds |-> [owner |-> None, late |-> FALSE]]
  /\ scopeInfo = [s \in ScopeIds |-> ScopeInfoInit]
  /\ watcherInfo = [w \in WatcherIds |-> WatcherInfoInit]
  /\ threw = FALSE

ScopeNext ==
  \/ \E d \in BOOLEAN : EffectScopeCall(d)
  \/ BindCurrentScopeToVM
  \/ OnScopeDispose
  \/ \E s \in ScopeIds : RunCall(s)
  \/ Return
  \/ Throw
  \/ Unwind
  \/ \E s \in ScopeIds : StopCall(s)
  \/ StopBegin
  \/ StopEffects
  \/ StopCleanups
  \/ \E sync \in BOOLEAN : WatchCall(sync)
  \/ \E w \in WatcherIds, r \in Registers : WatcherCallback(w, r)
  \/ \E w \in WatcherIds : WatcherQueue(w)
  \/ \E w \in WatcherIds, r \in Registers : WatcherJob(w, r)
  \/ \E w \in WatcherIds : StopHandle(w)
  \/ \E v \in ScopeIds : HostDestroy(v)
  \/ DestroyStep

(***************************************************************************)
(* The watch engine: watch(source, cb, options) and watchEffect(fn) over   *)
(* refs and a reactive object, the Vue watcher behind each of them, the    *)
(* per-host flush queues and nextTick.                                     *)
(***************************************************************************)

RefIds == 1..MaxRefs

\* the objects of a graph; a property holds an object or a primitive
Nodes == 1..MaxNodes

Primitive == 0
\* the watchers of the engine
WatchIds == {1, 2}

\* JavaScript values: undefined, primitives, arrays and the reactive object
Undef == [t |-> "undefined", p |-> "", items |-> <<>>]

Prim(x) == [t |-> "prim", p |-> x, items |-> <<>>]

Arr(xs) == [t |-> "array", p |-> "", items |-> xs]

Obj == [t |-> "object", p |-> "", items |-> <<>>]

isArray(v) == v.t = "array"

isObject(v) == v.t \in {"array", "object"}

\* values a ref may hold
RefVals == {Undef, Prim("a"), Arr(<<>>)}

\* the value a writing effect assigns to the ref it reads
Written == Prim("a")

\* o[i] of JavaScript, with i counted from 1: undefined beyond the end
At(o, i) == IF i <= Len(o.items) THEN o.items[i] ELSE Undef

\* isSame(v1, v2) of utils, the equality check of applyCb
isSame(v1, v2) == v1 = v2

\* the options argument of watch(): each option given or left out
OptImmediate == {"unset", "true"}

OptFlush == {"unset", "post", "sync"}

\* variant: immediate defaults to true
DefaultImmediateOn == TRUE

DefaultImmediate == FALSE

DefaultFlush == "pre"

\* getWatcherOption: the defaults, overridden by what the caller gave
getWatcherOption(opt) ==
  [immediate |-> IF opt.immediate = "unset" THEN DefaultImmediate
                 ELSE opt.immediate = "true",
   deep      |-> FALSE,
   flush     |-> IF opt.flush = "unset" THEN DefaultFlush ELSE opt.flush]

\* getWatchEffectOption: the default flush, overridden by what the caller gave
getWatchEffectOption(opt) ==
  [flush |-> IF opt.flush = "unset" THEN DefaultFlush ELSE opt.flush]

\* the sources watch() is called with: one ref, or an array of refs
Sources ==
  {[multi |-> FALSE, srcs |-> <<1>>]} \cup
  {[multi |-> TRUE, srcs |-> [i \in 1..k |-> i]] : k \in 0..MaxRefs}

\* kind: watch() or watchEffect(); reactive: the source is the reactive
\* object; adds: the callback adds a key to the reactive object while it has
\* fewer than MaxKeys keys; writes: the effect assigns Written to the ref it
\* reads; running: the flag of the effect's getter; changes: assignments to
\* a source so far; cycles: for an effect, those made while nothing was
\* waiting for a flush; regs: the effect registers a cleanup through
\* onInvalidate in each run; throws: the effect throws after it read the
\* ref; cleanup: the `cleanup` of createWatcher, 0 for null, else the number
\* of the registration; gen: registrations so far
NoWatch ==
  [made |-> FALSE, kind |-> "source", multi |-> FALSE, reactive |-> FALSE,
   srcs |-> <<>>,
   opt |-> [immediate |-> "unset", flush |-> "unset"],
   immediate |-> FALSE, deep |-> FALSE, flush |-> "pre", host |-> "fallback",
   active |-> FALSE, value |-> Undef, shifted |-> FALSE,
   init |-> Undef, changes |-> 0, cycles |-> 0,
   adds |-> FALSE, writes |-> FALSE, running |-> FALSE,
   regs |-> FALSE, throws |-> FALSE, cleanup |-> 0, gen |-> 0]

\* the mutable state the engine's functions read and write, as one record;
\* flushing is the flag of Vue's scheduler while flushSchedulerQueue runs;
\* thrown: an exception is on its way up to the nearest catch
Cur ==
  [refs |-> refs, ws |-> ws, pre |-> preQueue, post |-> postQueue,
   vq |-> vueQueue, ticks |-> ticks, calls |-> calls, runLog |-> runLog,
   keys |-> keys, flog |-> flog, njobs |-> njobs, sched |-> sched,
   flushing |-> FALSE, thrown |-> FALSE]

Commit(st) ==
  /\ refs' = st.refs
  /\ ws' = st.ws
  /\ preQueue' = st.pre
  /\ postQueue' = st.post
  /\ vueQueue' = st.vq
  /\ ticks' = st.ticks
  /\ calls' = st.calls
  /\ runLog' = st.runLog
  /\ keys' = st.keys
  /\ flog' = st.flog
  /\ njobs' = st.njobs
  /\ sched' = st.sched
  /\ UNCHANGED dataVars

\* an entry of the history of the schedulers and queues
Event(e, w, id, key, len) ==
  [e |-> e, w |-> w, id |-> id, key |-> key, len |-> len]

Log(st, ev) == [st EXCEPT !.flog = Append(@, ev)]

\* getter(): the reactive object, the ref's value, or the array of the
\* sources' values
getter(st, w) ==
  IF st.ws[w].reactive THEN Obj
  ELSE IF st.ws[w].multi
    THEN Arr([i \in 1..Len(st.ws[w].srcs) |-> st.refs[st.ws[w].srcs[i]]])
    ELSE st.refs[st.ws[w].srcs[1]]

\* variant: the every-slot-same test is dropped
ApplySkipsNever(wr, n, o) == FALSE

\* applyCb returns without calling cb: multi-source, not deep, every slot same
ApplySkips(wr, n, o) ==
  /\ ~wr.deep
  /\ wr.multi
  /\ \A i \in 1..Len(n.items) : isSame(n.items[i], At(o, i))

\* fallbackFlush() of queueFlushJob: vm.$nextTick(...) on every call
ScheduleFallback(st) ==
  [st EXCEPT !.ticks = Append(@, "fallback"), !.sched = @ + 1]

\* queueFlushJob: schedule the fallback flush, then push the job
queueFlushJob(st, job, mode) ==
  LET id == st.njobs + 1
      j  == [job EXCEPT !.id = id]
      t  == Log([ScheduleFallback(st) EXCEPT !.njobs = id],
                Event("enq", job.w, id, mode, 0))
  IN  IF mode = "pre" THEN [t EXCEPT !.pre = Append(@, j)]
      ELSE IF mode = "post" THEN [t EXCEPT !.post = Append(@, j)]
      ELSE Log(st, Event("assert", job.w, 0, mode, 0))

\* variant: only flush 'sync' runs inline
RunsInlineSyncOnly(wr) == wr.flush = "sync"

\* createScheduler(fn): inline when sync or on the fallback host
RunsInline(wr) == wr.flush = "sync" \/ wr.host = "fallback"

RECURSIVE run(_, _)

\* queueWatcher of Vue: once per watcher, one flush per tick; a watcher
\* queued during the flush runs in that flush
queueWatcher(st, w) ==
  IF w \in Range(st.vq) THEN st
  ELSE [st EXCEPT !.vq = Append(@, w),
                  !.ticks = IF "vue" \in Range(@) \/ st.flushing THEN @
                            ELSE Append(@, "vue")]

\* Watcher.update() of Vue: a sync watcher runs now, others are queued; a
\* notification that reaches an effect while its function runs is recorded
update(st, w) ==
  LET t == IF st.ws[w].running THEN Log(st, Event("trigger", w, 0, "", 0))
           ELSE st
  IN  IF t.ws[w].flush = "sync" THEN run(t, w) ELSE queueWatcher(t, w)

DependsOn(wr, r) == wr.made /\ wr.active /\ r \in Range(wr.srcs)

\* dep.notify() of the ref: update the subscribed watchers in id order
RECURSIVE notifyFrom(_, _, _)
notifyFrom(st, r, w) ==
  IF w \notin WatchIds THEN st
  ELSE notifyFrom(IF DependsOn(st.ws[w], r) THEN update(st, w) ELSE st,
                  r, w + 1)

\* __ob__.dep.notify() of the reactive object after a key was added: the
\* subscriber createWatcher added for each watcher of it calls watcher.run()
RECURSIVE notifyOb(_, _)
notifyOb(st, w) ==
  IF w \notin WatchIds THEN st
  ELSE notifyOb(IF st.ws[w].made /\ st.ws[w].reactive THEN run(st, w)
                ELSE st,
                w + 1)

\* the body of the user's callback: it may throw, it may add a key to the
\* reactive object
cb(st, w) ==
  IF st.ws[w].throws THEN [st EXCEPT !.thrown = TRUE]
  ELSE IF st.ws[w].adds /\ st.keys < MaxKeys
    THEN notifyOb([st EXCEPT !.keys = @ + 1], 1)
    ELSE st

applyCb(st, w, n, o, reg) ==
  IF ApplySkips(st.ws[w], n, o) THEN st
  ELSE cb(Log([st EXCEPT !.calls =
                 Append(@, [w |-> w, n |-> n, o |-> o, reg |-> reg])],
              Event("cb", w, 0, "", 0)),
          w)

\* registerCleanup(fn): cleanup = () => { try { fn() } catch ... }; the
\* slot is overwritten, whatever it held
registerCleanup(st, w) ==
  LET g == st.ws[w].gen + 1
      t == IF st.ws[w].cleanup # 0
             THEN Log(st, Event("replaced", w, st.ws[w].cleanup, "", 0))
             ELSE st
  IN  [t EXCEPT !.ws[w].cleanup = g, !.ws[w].gen = g]

\* runCleanup(): if (cleanup) { cleanup(); cleanup = null }
runCleanup(st, w) ==
  IF st.ws[w].cleanup # 0
    THEN Log([st EXCEPT !.ws[w].cleanup = 0],
             Event("cleanup", w, st.ws[w].cleanup, "", 0))
    ELSE st

\* variant: no finally, the flag is cleared only when the function returns
RunningAfterReturnOnly(thrown) == thrown

\* try { running = true; source(registerCleanup) } finally { running = false }
RunningAfter(thrown) == FALSE

\* the getter of an effect watcher: the running guard around the user's
\* function, which reads the ref, may register a cleanup, may assign to the
\* ref and may throw; the host's Watcher.get catches what a user watcher's
\* getter throws
effectGetter(st, w, reg) ==
  IF st.ws[w].running THEN Log(st, Event("drop", w, 0, "", 0))
  ELSE LET r == st.ws[w].srcs[1]
           a == Log([st EXCEPT !.ws[w].running = TRUE,
                               !.calls = Append(@, [w |-> w, n |-> st.refs[r],
                                                    o |-> Undef,
                                                    reg |-> reg])],
                    Event("enter", w, 0, "", 0))
           c == IF a.ws[w].regs THEN registerCleanup(a, w) ELSE a
           b == IF c.ws[w].writes /\ c.refs[r] # Written
                  THEN notifyFrom([c EXCEPT !.refs[r] = Written], r, 1)
                  ELSE c
       IN  Log([b EXCEPT !.ws[w].running = RunningAfter(b.ws[w].throws)],
               Event(IF b.ws[w].throws THEN "throw" ELSE "leave",
                     w, 0, "", 0))

\* watcher.get of an effect watcher after createWatcher patched it:
\* createScheduler(originGet)
scheduledGet(st, w) ==
  IF RunsInline(st.ws[w])
    THEN effectGetter(Log(st, Event("inline", w, 0, "", 0)), w, FALSE)
    ELSE queueFlushJob(st, [kind |-> "get", w |-> w, n |-> Undef,
                            o |-> Undef, id |-> 0],
                       st.ws[w].flush)

\* createScheduler(applyCb)
scheduled(st, w, n, o) ==
  IF RunsInline(st.ws[w])
    THEN applyCb(Log(st, Event("inline", w, 0, "", 0)), w, n, o, FALSE)
    ELSE queueFlushJob(st, [kind |-> "cb", w |-> w, n |-> n, o |-> o,
                            id |-> 0],
                       st.ws[w].flush)

\* the old value handed to applyCb by shiftCallback
ShiftedOld(n, o) == IF isArray(n) THEN Arr(<<>>) ELSE o

\* callback: shiftCallback on the first call of an immediate watcher,
\* the scheduled applyCb otherwise
callback(st, w, n, o, reg) ==
  IF st.ws[w].immediate /\ ~st.ws[w].shifted
    THEN applyCb([st EXCEPT !.ws[w].shifted = TRUE], w, n,
                 ShiftedOld(n, o), reg)
    ELSE scheduled(st, w, n, o)

\* the host's try/catch around the callback of a user watcher, around a
\* listener of $emit and around a callback of nextTick: the error is logged
Caught(st) == [st EXCEPT !.thrown = FALSE]

\* Watcher.run() of Vue calls back when the value changed or is an object
Fires(v, old, deep) == v # old \/ isObject(v) \/ deep

\* Watcher.run() of Vue: re-evaluate the getter, store the value, call back;
\* the getter of an effect watcher returns undefined, so its noop callback
\* is never called
run(st, w) ==
  IF ~st.ws[w].active THEN st
  ELSE IF st.ws[w].kind = "effect" THEN scheduledGet(st, w)
  ELSE LET v   == getter(st, w)
           old == st.ws[w].value
       IN  IF Fires(v, old, st.ws[w].deep)
             THEN Caught(callback([st EXCEPT !.ws[w].value = v,
                                             !.runLog = Append(@,
                                                [w |-> w, n |-> v,
                                                 o |-> old])],
                                  w, v, old, FALSE))
             ELSE st

\* flushSchedulerQueue of Vue: run the queued watchers in id order, those
\* queued meanwhile included
Least(q) == CHOOSE w \in Range(q) : \A x \in Range(q) : w <= x

\* the `before` option createWatcher gives the watcher of an effect
before(st, w) ==
  IF st.ws[w].kind = "effect" THEN runCleanup(st, w) ELSE st

\* if (watcher.before) watcher.before(); watcher.run()
RECURSIVE flushSchedulerFrom(_)
flushSchedulerFrom(st) ==
  IF st.vq = <<>> THEN st
  ELSE LET w == Least(st.vq)
       IN  flushSchedulerFrom(
             run(before([st EXCEPT !.vq = SelectSeq(@, LAMBDA x : x # w)],
                        w),
                 w))

flushSchedulerQueue(st) ==
  [flushSchedulerFrom([st EXCEPT !.flushing = TRUE]) EXCEPT
     !.flushing = FALSE]

\* flushQueue: call the jobs by index up to the current length, then empty
QueueOf(st, key) == IF key = "pre" THEN st.pre ELSE st.post

Emptied(st, key) ==
  IF key = "pre" THEN [st EXCEPT !.pre = <<>>] ELSE [st EXCEPT !.post = <<>>]

\* a queued job: applyCb(n, o) of a watch(), originGet() of a watchEffect()
runJob(st, job) ==
  IF job.kind = "get" THEN effectGetter(st, job.w, FALSE)
  ELSE applyCb(st, job.w, job.n, job.o, FALSE)

\* variant: the loop goes on after a job that threw
LeavesLoopNever(thrown) == FALSE

\* queue[index](): what the job throws leaves the loop and flushQueue, and
\* `queue.length = 0` is not reached
LeavesLoop(thrown) == thrown

RECURSIVE flushFrom(_, _, _)
flushFrom(st, key, i) ==
  IF i > Len(QueueOf(st, key))
    THEN LET e == Emptied(st, key)
         IN  Log(e, Event("end", 0, 0, key, Len(QueueOf(e, key))))
  ELSE LET job == QueueOf(st, key)[i]
           r   == runJob(Log(st, Event("exec", job.w, job.id, key, 0)), job)
       IN  IF LeavesLoop(r.thrown)
             THEN Log(r, Event("abort", job.w, job.id, key,
                               Len(QueueOf(r, key))))
             ELSE flushFrom(r, key, i + 1)

flushQueue(st, key) == flushFrom(Log(st, Event("begin", 0, 0, key, 0)), key, 1)

\* variant: the listener of hook:beforeUpdate flushes both queues
flushPreQueueBoth(st) == flushQueue(flushQueue(st, "pre"), "post")

flushPreQueue(st) == flushQueue(st, "pre")

flushPostQueue(st) == flushQueue(st, "post")

\* variant: the post queue is flushed before the pre queue
fallbackFlushPostFirst(st) ==
  LET a == IF Len(st.post) > 0 THEN flushQueue(st, "post") ELSE st
  IN  IF Len(a.pre) > 0 THEN flushQueue(a, "pre") ELSE a

\* the callback fallbackFlush hands to vm.$nextTick
fallbackFlush(st) ==
  LET a == IF Len(st.pre) > 0 THEN flushQueue(st, "pre") ELSE st
  IN  IF a.thrown THEN a
      ELSE IF Len(a.post) > 0 THEN flushQueue(a, "post") ELSE a

nextWatch ==
  IF \E w \in WatchIds : ~ws[w].made
    THEN CHOOSE w \in WatchIds : ~ws[w].made /\ \A x \in 1..(w - 1) : ws[x].made
    ELSE None

\* the host createWatcher is given by getWatcherVM()
CurrentHost == IF getWatcherVM = FallbackVM THEN "fallback" ELSE "vm"

\* variant: the test never finds the queues
hasWatchEnvNever(n) == FALSE

\* hasWatchEnv(vm): vm[WatcherPreFlushQueueKey] !== undefined, which holds
\* from the first installWatchEnv(vm) on
hasWatchEnv(n) == n > 0

\* installWatchEnv(vm): two empty queues; the two listeners are counted by
\* envInstalled
installWatchEnv(st) == [st EXCEPT !.pre = <<>>, !.post = <<>>]

\* getWatcherVM(): else if (!hasWatchEnv(vm)) installWatchEnv(vm)
Installs(host) == host = "vm" /\ ~hasWatchEnv(envInstalled)

\* the state createWatcher finds, and the installations after getWatcherVM()
WatcherEnv(host) == IF Installs(host) THEN installWatchEnv(Cur) ELSE Cur

EnvAfter(host) == IF Installs(host) THEN envInstalled + 1 ELSE envInstalled

\* watch(source, cb, options) on refs, called with or without a current
\* host; the engine is exercised with one such watcher
createWatch(src, opt, host, throws) ==
  /\ nextWatch = 1
  /\ LET w    == nextWatch
         opts == getWatcherOption(opt)
         v    == getter([Cur EXCEPT !.ws[w].multi = src.multi,
                                    !.ws[w].srcs = src.srcs], w)
         st   == [WatcherEnv(host) EXCEPT !.ws[w] =
                    [NoWatch EXCEPT
                       !.made = TRUE, !.multi = src.multi, !.srcs = src.srcs,
                       !.opt = opt,
                       !.immediate = opts.immediate, !.deep = opts.deep,
                       !.flush = opts.flush, !.host = host, !.active = TRUE,
                       !.value = v, !.init = v, !.throws = throws]]
     IN  Commit(IF opts.immediate THEN callback(st, w, v, Undef, TRUE)
                ELSE st)
  /\ envInstalled' = EnvAfter(host)
  /\ UNCHANGED nsets
  /\ UNCHANGED scopeVars

\* watch(source, cb, options) with a cb that returns
Watch(src, opt, host) == createWatch(src, opt, host, FALSE)

\* watch(ref, cb, {flush}) with a cb that throws
WatchThrows(f) ==
  createWatch([multi |-> FALSE, srcs |-> <<1>>],
              [immediate |-> "unset", flush |-> f], CurrentHost, TRUE)

\* watch(state, cb, {flush}) on the reactive object: the source makes the
\* watcher deep, and createWatcher subscribes it to the object's own dep
WatchReactive(f, adds) ==
  /\ nextWatch # None
  /\ LET w    == nextWatch
         opt  == [immediate |-> "unset", flush |-> f]
         opts == getWatcherOption(opt)
     IN  Commit([WatcherEnv(CurrentHost) EXCEPT !.ws[w] =
                   [NoWatch EXCEPT
                      !.made = TRUE, !.reactive = TRUE, !.opt = opt,
                      !.immediate = opts.immediate, !.deep = TRUE,
                      !.flush = opts.flush, !.host = CurrentHost,
                      !.active = TRUE, !.value = Obj, !.init = Obj,
                      !.adds = adds]])
  /\ envInstalled' = EnvAfter(CurrentHost)
  /\ UNCHANGED nsets
  /\ UNCHANGED scopeVars

\* variant: the Vue watcher is created lazy and does not run its getter
FirstRunLazy(st, w) == st

\* the constructor of the Vue watcher evaluates the getter: this.get()
FirstRun(st, w) == effectGetter(st, w, TRUE)

\* createWatcher with cb === null, for an fn that reads ref 1: the Vue
\* watcher's constructor runs the getter once, then watcher.get is patched
createEffect(f, writes, regs, throws) ==
  /\ nextWatch # None
  /\ LET w    == nextWatch
         opt  == [immediate |-> "unset", flush |-> f]
         opts == getWatchEffectOption(opt)
         st   == [WatcherEnv(CurrentHost) EXCEPT !.ws[w] =
                    [NoWatch EXCEPT
                       !.made = TRUE, !.kind = "effect", !.srcs = <<1>>,
                       !.opt = opt, !.flush = opts.flush,
                       !.host = CurrentHost, !.active = TRUE,
                       !.init = refs[1], !.writes = writes,
                       !.regs = regs, !.throws = throws]]
     IN  Commit(FirstRun(st, w))
  /\ envInstalled' = EnvAfter(CurrentHost)
  /\ UNCHANGED nsets
  /\ UNCHANGED scopeVars

\* watchEffect(fn, {flush}) for an fn that neither registers a cleanup nor
\* throws
WatchEffect(f, writes) == createEffect(f, writes, FALSE, FALSE)

\* watchEffect(fn, {flush}) for an fn that calls onInvalidate in each run
WatchEffectCleanup(f) == createEffect(f, FALSE, TRUE, FALSE)

\* watchEffect(fn, {flush}) for an fn that throws after it read the ref
WatchEffectThrows(f) == createEffect(f, FALSE, FALSE, TRUE)

\* nothing waits for a tick or for a signal of the host
Idle ==
  ticks = <<>> /\ vueQueue = <<>> /\ preQueue = <<>> /\ postQueue = <<>>

\* ref.value = v, for a v that is not the value the ref holds; assignments
\* made before watch() are covered by the initial values of the refs
SetRef(r, v) ==
  /\ nsets < MaxSets
  /\ \E w \in WatchIds : ws[w].made
  /\ v # refs[r]
  /\ Commit(notifyFrom(
       [Cur EXCEPT !.refs[r] = v,
                   !.ws = [w \in WatchIds |->
                             IF DependsOn(ws[w], r)
                               THEN [ws[w] EXCEPT
                                       !.changes = @ + 1,
                                       !.cycles =
                                         IF Idle /\ ws[w].kind = "effect"
                                           THEN @ + 1 ELSE @]
                               ELSE ws[w]]],
       r, 1))
  /\ nsets' = nsets + 1
  /\ UNCHANGED envInstalled
  /\ UNCHANGED scopeVars

\* set(state, key, value) for a key the reactive object does not have
AddKey ==
  /\ keys < MaxKeys
  /\ \E w \in WatchIds : ws[w].made /\ ws[w].reactive
  /\ Commit(notifyOb([Cur EXCEPT !.keys = @ + 1], 1))
  /\ UNCHANGED <<envInstalled, nsets>>
  /\ UNCHANGED scopeVars

\* flushCallbacks of Vue's nextTick: the callbacks pending when the tick
\* begins run in order; those handed to nextTick meanwhile wait for the next
RECURSIVE runTicks(_, _)
runTicks(st, n) ==
  IF n = 0 THEN st
  ELSE LET t == [st EXCEPT !.ticks = Tail(@)]
       IN  runTicks(IF Head(st.ticks) = "vue" THEN flushSchedulerQueue(t)
                    ELSE Caught(fallbackFlush(t)),
                    n - 1)

\* the next tick: the pending callbacks of nextTick run
Tick ==
  /\ ticks # <<>>
  /\ Commit(runTicks([Cur EXCEPT !.sched = 0], Len(ticks)))
  /\ UNCHANGED <<envInstalled, nsets>>
  /\ UNCHANGED scopeVars

\* vm.$emit('hook:beforeUpdate'): each listener installWatchEnv added is
\* called, flushPreQueue
RECURSIVE emitBeforeUpdate(_, _)
emitBeforeUpdate(st, n) ==
  IF n = 0 THEN st ELSE emitBeforeUpdate(Caught(flushPreQueue(st)), n - 1)

\* vm.$emit('hook:updated'): flushPostQueue for each listener
RECURSIVE emitUpdated(_, _)
emitUpdated(st, n) ==
  IF n = 0 THEN st ELSE emitUpdated(Caught(flushPostQueue(st)), n - 1)

\* the host emits hook:beforeUpdate
BeforeUpdate ==
  /\ envInstalled > 0
  /\ preQueue # <<>>
  /\ Commit(emitBeforeUpdate(Cur, envInstalled))
  /\ UNCHANGED <<envInstalled, nsets>>
  /\ UNCHANGED scopeVars

\* the host emits hook:updated
Updated ==
  /\ envInstalled > 0
  /\ postQueue # <<>>
  /\ Commit(emitUpdated(Cur, envInstalled))
  /\ UNCHANGED <<envInstalled, nsets>>
  /\ UNCHANGED scopeVars

\* the patched watcher.teardown(): the host's teardown makes the watcher
\* inactive and unsubscribes it, then runCleanup(); the jobs pushed on the
\* host's pre and post queues are closures the teardown does not touch
teardown(st, w) ==
  runCleanup(Log([st EXCEPT !.ws[w].active = FALSE],
                 Event("stop", w, 0, "", 0)), w)

\* the first call of the stop handle of watch() or watchEffect(), or the
\* stop of the scope that recorded the watcher
Stop(w) ==
  /\ ws[w].made
  /\ ws[w].active
  /\ Commit(teardown(Cur, w))
  /\ UNCHANGED <<envInstalled, nsets>>
  /\ UNCHANGED scopeVars

\* the value `undefined`: of a cell never evaluated, of a call not made
NoValue == -1

\* no deep getter has run
TraverseIdle ==
  /\ graph = [n \in Nodes |-> <<>>]
  /\ rawSet = {}
  /\ seen = {}
  /\ tstack = <<>>
  /\ tphase = "idle"
  /\ entered = [n \in Nodes |-> 0]
  /\ tret = NoValue

\* cell.ran: ghost, executions of the user getter in the last operation;
\* cell.runs: ghost, its executions since a dependency was last mutated
NoCell ==
  [made |-> FALSE, host |-> "none", getter |-> "none", setter |-> FALSE,
   watcher |-> FALSE, dirty |-> FALSE, value |-> NoValue, deps |-> {},
   ran |-> 0, runs |-> 0]

\* read: the cell was read since a dependency was last mutated, returning
\* ret; warned, sets: the warnings and the setter calls of the last
\* operation; cycle: how far the cell came on dirty, clean, dirty, clean
NoOp ==
  [op |-> "none", read |-> FALSE, ret |-> NoValue, warned |-> 0,
   sets |-> <<>>, cycle |-> 0]

\* no computed() has been called
ComputedIdle ==
  /\ cdep = [r \in RefIds |-> 0]
  /\ cell = NoCell
  /\ clog = NoOp

ObjIds == 1..MaxObjs

P(n) == [t |-> "prim", v |-> n]
O(o) == [t |-> "obj", v |-> o]
R(r) == [t |-> "ref", v |-> r]

\* an object: its own property __ob__ (ob) and the __raw__ flag of that
\* observer, its membership of accessModifiedSet (acc), and its one key:
\* the value the property holds (slot), whether Vue made the property
\* reactive (vueR), whether defineAccessControl proxied it (hasAcc) and the
\* `val` of that closure.  A container made by shallowReactive(obj) has
\* of = obj; ofWrapped is a ghost: obj was reactive when it was handed in
NoObj ==
  [alloc |-> FALSE, kind |-> "plain", ext |-> TRUE, ob |-> FALSE,
   rawflag |-> FALSE, acc |-> FALSE, slot |-> P(0), vueR |-> FALSE,
   hasAcc |-> FALSE, val |-> P(0), of |-> 0, ofWrapped |-> FALSE]

\* no key was written by the last step
NoWrite == [t |-> "none", v |-> 0]

\* no object exists yet
HeapIdle ==
  /\ heap = [o \in ObjIds |-> NoObj]
  /\ rval = [r \in RefIds |-> P(0)]
  /\ last = NoWrite

\* the source object of the shallow container: the descriptor of its key
\* (a data property, or an accessor with a getter, a setter or both, whose
\* functions read and write the field src), and whether it is configurable;
\* the container: whether the key got a proxy, the `val` of the proxy's
\* closure, the force-trigger mode; ghosts of the last access to the key:
\* the operation, the value written, the value a read gave before it, the
\* calls of ob.dep.notify() and the value read
NoShallow ==
  [made |-> FALSE, kind |-> "data", conf |-> TRUE, src |-> NoValue,
   proxied |-> FALSE, val |-> NoValue, force |-> FALSE,
   op |-> "none", arg |-> NoValue, before |-> NoValue, notified |-> 0,
   result |-> NoValue]

\* shallowReactive() has made no container
ShallowIdle == observed = NoShallow

DataIdle ==
  /\ TraverseIdle
  /\ ComputedIdle
  /\ HeapIdle
  /\ ShallowIdle

WatchIdle ==
  /\ DataIdle
  /\ refs = [r \in RefIds |-> Undef]
  /\ ws = [w \in WatchIds |-> NoWatch]
  /\ envInstalled = 0
  /\ preQueue = <<>>
  /\ postQueue = <<>>
  /\ vueQueue = <<>>
  /\ ticks = <<>>
  /\ calls = <<>>
  /\ runLog = <<>>
  /\ nsets = 0
  /\ keys = 0
  /\ flog = <<>>
  /\ njobs = 0
  /\ sched = 0

EngineIdle ==
  /\ refs = [r \in RefIds |-> Undef]
  /\ ws = [w \in WatchIds |-> NoWatch]
  /\ envInstalled = 0
  /\ preQueue = <<>>
  /\ postQueue = <<>>
  /\ vueQueue = <<>>
  /\ ticks = <<>>
  /\ calls = <<>>
  /\ runLog = <<>>
  /\ nsets = 0
  /\ keys = 0
  /\ flog = <<>>
  /\ njobs = 0
  /\ sched = 0

WatchInit ==
  /\ DataIdle
  /\ refs \in [RefIds -> RefVals]
  /\ ws = [w \in WatchIds |-> NoWatch]
  /\ envInstalled = 0
  /\ preQueue = <<>>
  /\ postQueue = <<>>
  /\ vueQueue = <<>>
  /\ ticks = <<>>
  /\ calls = <<>>
  /\ runLog = <<>>
  /\ nsets = 0
  /\ keys = 0
  /\ flog = <<>>
  /\ njobs = 0
  /\ sched = 0

WatchNext ==
  \/ \E src \in Sources, i \in OptImmediate, f \in OptFlush,
        h \in {"fallback", "vm"} :
       Watch(src, [immediate |-> i, flush |-> f], h)
  \/ \E r \in RefIds, v \in RefVals : SetRef(r, v)
  \/ Tick
  \/ BeforeUpdate
  \/ Updated

\* effects on a ref the program assigns
EffectNext ==
  \/ \E f \in OptFlush, x \in BOOLEAN : WatchEffect(f, x)
  \/ \E v \in {Undef, Written} : SetRef(1, v)
  \/ Tick
  \/ BeforeUpdate
  \/ Updated

\* watchers of the reactive object, effects that only read, and the flush
\* queues
FlushNext ==
  \/ \E f \in OptFlush, a \in BOOLEAN : WatchReactive(f, a)
  \/ \E f \in OptFlush : WatchEffect(f, FALSE)
  \/ \E v \in {Undef, Written} : SetRef(1, v)
  \/ AddKey
  \/ Tick
  \/ BeforeUpdate
  \/ Updated

vars == <<scopeVars, watchVars>>

\* what the steps of one part of the library leave alone
notTraverse == <<scopeVars, engineVars, computedVars, heapVars,
                 shallowVars>>

notComputed == <<scopeVars, engineVars, traverseVars, heapVars,
                 shallowVars>>

notHeap == <<scopeVars, engineVars, computedVars, shallowVars,
             graph, seen, tstack, tphase, entered, tret>>

notShallow == <<scopeVars, engineVars, traverseVars, computedVars,
                heapVars>>

\* the effect scopes, with the watch engine idle
Init == ScopeInit /\ WatchIdle

Next == ScopeNext

Spec == Init /\ [][Next]_vars

\* watchers and their cleanups, outside any component or inside setup() of
\* a component: toVue3ComponentInstance has bound the instance's scope and
\* setCurrentInstance has made the instance and its scope current
InSetup ==
  /\ scopes = [s \in ScopeIds |->
                 IF s = 1 THEN NewScopeRec(TRUE) ELSE NoScopeRec]
  /\ effectScopeStack = <<1>>
  /\ activeEffectScope = 1
  /\ currentInstance = 1
  /\ vms = [v \in VmIds |->
              [beingDestroyed |-> FALSE, destroyed |-> FALSE,
               hooks |-> IF v = 1 THEN <<1>> ELSE <<>>, watchers |-> <<>>]]
  /\ watchers = [w \in WatcherIds |-> NoWatcherRec]
  /\ ctl = <<>>
  /\ exc = FALSE
  /\ runResult = "none"
  /\ ops = 0
  /\ ran = [c \in CleanupIds |-> 0]
  /\ cleanupInfo = [c \in CleanupIds |-> [owner |-> None, late |-> FALSE]]
  /\ scopeInfo = [s \in ScopeIds |-> ScopeInfoInit]
  /\ watcherInfo = [w \in WatcherIds |-> WatcherInfoInit]
  /\ threw = FALSE

InitCleanup == (ScopeInit \/ InSetup) /\ WatchIdle

NextCleanup ==
  \/ \E sync \in BOOLEAN : WatchCall(sync)
  \/ \E w \in WatcherIds, r \in Registers : WatcherCallback(w, r)
  \/ \E w \in WatcherIds : WatcherQueue(w)
  \/ \E w \in WatcherIds, r \in Registers : WatcherJob(w, r)
  \/ \E w \in WatcherIds : StopHandle(w)

SpecCleanup == InitCleanup /\ [][NextCleanup]_vars

\* component instances and their setup, with effect scopes run around them
InitInstance == (ScopeInit \/ InSetup) /\ WatchIdle

NextInstance ==
  \/ \E d \in BOOLEAN : EffectScopeCall(d)
  \/ BindCurrentScopeToVM
  \/ \E s \in ScopeIds : RunCall(s)
  \/ Return
  \/ Throw
  \/ Unwind
  \/ \E i \in ScopeIds, h \in BOOLEAN : ActivateCurrentInstance(i, h)
  \/ SetupReturn
  \/ SetupThrow

SpecInstance == InitInstance /\ [][NextInstance]_vars

\* the watch engine, with no effect scope in play
InitWatch == ScopeInit /\ WatchInit

NextWatch == WatchNext

SpecWatch == InitWatch /\ [][NextWatch]_vars

\* effects, outside any component or inside setup()
InitEffect == (ScopeInit \/ InSetup) /\ WatchIdle

NextEffect == EffectNext

SpecEffect == InitEffect /\ [][NextEffect]_vars

\* the flush queues, outside any component or inside setup()
InitFlush == (ScopeInit \/ InSetup) /\ WatchIdle

NextFlush == FlushNext

SpecFlush == InitFlush /\ [][NextFlush]_vars

\* on(), off(), run() and stop() called in any order on any scopes
InitOnOff == (ScopeInit \/ InSetup) /\ WatchIdle

NextOnOff ==
  \/ \E d \in BOOLEAN : EffectScopeCall(d)
  \/ \E s \in ScopeIds : On(s)
  \/ \E s \in ScopeIds : Off(s)
  \/ \E s \in ScopeIds : RunCall(s)
  \/ Return
  \/ Throw
  \/ Unwind
  \/ \E s \in ScopeIds : StopCall(s)
  \/ StopBegin
  \/ StopEffects
  \/ StopCleanups
  \/ DestroyStep

SpecOnOff == InitOnOff /\ [][NextOnOff]_vars

\* effects that register a cleanup in each run, outside any component or
\* inside setup()
InitEffectCleanup == (ScopeInit \/ InSetup) /\ WatchIdle

NextEffectCleanup ==
  \/ \E f \in OptFlush : WatchEffectCleanup(f)
  \/ \E v \in {Undef, Written} : SetRef(1, v)
  \/ Tick
  \/ BeforeUpdate
  \/ Updated

SpecEffectCleanup == InitEffectCleanup /\ [][NextEffectCleanup]_vars

\* effects whose function throws in each run, outside any component or
\* inside setup()
InitEffectThrows == (ScopeInit \/ InSetup) /\ WatchIdle

NextEffectThrows ==
  \/ \E f \in OptFlush : WatchEffectThrows(f)
  \/ \E v \in {Undef, Written} : SetRef(1, v)
  \/ Tick
  \/ BeforeUpdate
  \/ Updated

SpecEffectThrows == InitEffectThrows /\ [][NextEffectThrows]_vars

\* a watcher of a ref or an effect, stopped at any moment, outside any
\* component or inside setup()
InitStop == (ScopeInit \/ InSetup) /\ WatchIdle

NextStop ==
  \/ \E f \in OptFlush :
       Watch([multi |-> FALSE, srcs |-> <<1>>],
             [immediate |-> "unset", flush |-> f], CurrentHost)
  \/ \E f \in OptFlush : WatchEffect(f, FALSE)
  \/ \E v \in {Undef, Written} : SetRef(1, v)
  \/ Tick
  \/ BeforeUpdate
  \/ Updated
  \/ \E w \in WatchIds : Stop(w)

SpecStop == InitStop /\ [][NextStop]_vars

\* the drains a job that threw has left so far
Aborts == Cardinality({i \in DOMAIN flog : flog[i].e = "abort"})

\* the queues of one host: watchers of the reactive object whose callback
\* may add a key (a job that enqueues a job during a drain), a watcher of a
\* ref whose callback throws, the host's signals and its next ticks
InitQueue == (ScopeInit \/ InSetup) /\ WatchIdle

NextQueue ==
  \/ \E f \in OptFlush, a \in BOOLEAN : WatchReactive(f, a)
  \/ \E f \in OptFlush : WatchThrows(f)
  \/ \E v \in {Undef, Written} : SetRef(1, v)
  \/ AddKey
  \/ Tick
  \/ Aborts < MaxAborts /\ BeforeUpdate
  \/ Aborts < MaxAborts /\ Updated

SpecQueue == InitQueue /\ [][NextQueue]_vars

(***************************************************************************)
(* The deep getter: traverse(baseGetter()) over a graph of objects (plain  *)
(* objects, arrays, sets, maps, refs: objects whose properties, elements   *)
(* or inner value traverse() visits in order).                             *)
(***************************************************************************)

PropValues == {Primitive} \cup Nodes

\* an object has up to two properties
PropLists ==
  {<<>>} \cup {<<a>> : a \in PropValues}
         \cup {<<a, b>> : a \in PropValues, b \in PropValues}

\* the source of the watcher
Root == 1

\* variant: the seen set is not consulted
ReturnsAtOnceUnseen(v) == v = Primitive \/ v \in rawSet

\* traverse: !isObject(value) || seen.has(value) || rawSet.has(value)
ReturnsAtOnce(v) == v = Primitive \/ v \in seen \/ v \in rawSet

\* variant: traverse() returns nothing, as the traverse of Vue 2 does
TraverseReturnVoid(value) == NoValue

\* traverse: return value, in the early exit and at the end alike
TraverseReturn(value) == value

\* the result of a call of traverse() that returns to the activations stk:
\* the nested calls are statements, only the getter uses the result
Returned(value, stk) ==
  IF stk = <<>> THEN TraverseReturn(value) ELSE tret

\* a call traverse(v, seen) made with the activations stk below it
TraverseCall(v, stk) ==
  IF ReturnsAtOnce(v)
    THEN /\ tstack' = stk
         /\ tret' = Returned(v, stk)
         /\ UNCHANGED <<seen, entered>>
    ELSE /\ seen' = seen \cup {v}
         /\ entered' = [entered EXCEPT ![v] = @ + 1]
         /\ tstack' = Append(stk, [node |-> v, i |-> 1])
         /\ UNCHANGED tret

\* the Vue watcher evaluates the deep getter: traverse(baseGetter())
TraverseBegin ==
  /\ tphase = "idle"
  /\ tphase' = "running"
  /\ TraverseCall(Root, <<>>)
  /\ UNCHANGED <<graph, rawSet>>
  /\ UNCHANGED notTraverse

\* the loop of the innermost activation: the next property, or return
TraverseStep ==
  /\ tphase = "running"
  /\ tstack # <<>>
  /\ LET top == Last(tstack)
     IN  IF top.i > Len(graph[top.node])
           THEN /\ tstack' = Front(tstack)
                /\ tret' = Returned(top.node, Front(tstack))
                /\ UNCHANGED <<seen, entered>>
           ELSE TraverseCall(graph[top.node][top.i],
                             [tstack EXCEPT ![Len(tstack)].i = @ + 1])
  /\ UNCHANGED <<graph, rawSet, tphase>>
  /\ UNCHANGED notTraverse

\* the outermost traverse() has returned: the getter returns
TraverseEnd ==
  /\ tphase = "running"
  /\ tstack = <<>>
  /\ tphase' = "done"
  /\ UNCHANGED <<graph, rawSet, seen, tstack, entered, tret>>
  /\ UNCHANGED notTraverse

\* any graph of objects, some of them marked raw
InitTraverse ==
  /\ ScopeInit
  /\ EngineIdle
  /\ graph \in [Nodes -> PropLists]
  /\ rawSet \in SUBSET Nodes
  /\ seen = {}
  /\ tstack = <<>>
  /\ tphase = "idle"
  /\ entered = [n \in Nodes |-> 0]
  /\ tret = NoValue
  /\ ComputedIdle
  /\ HeapIdle
  /\ ShallowIdle

NextTraverse ==
  \/ TraverseBegin
  \/ TraverseStep
  \/ TraverseEnd

\* the getter is ordinary sequential code: it keeps running until it returns
SpecTraverse ==
  InitTraverse /\ [][NextTraverse]_vars /\ WF_vars(NextTraverse)

(* ============================ computed cells =========================== *)
\* __DEV__: the development build, in which the warnings are compiled in
DEV == TRUE

\* the values of the refs the getters read
CVals == 0..1

\* the user getters tried: one ref, two refs, the second ref only when the
\* first holds 0
Getters == {"first", "sum", "cond"}

\* the user getter: the value it returns
userGetter(g, d) ==
  CASE g = "first" -> d[1]
    [] g = "sum" -> d[1] + d[2]
    [] OTHER -> IF d[1] = 0 THEN d[2] ELSE 5

\* the user getter: the refs it reads, which subscribe the watcher
getterReads(g, d) ==
  CASE g = "first" -> {1}
    [] g = "sum" -> {1, 2}
    [] OTHER -> IF d[1] = 0 THEN {1, 2} ELSE {1}

\* the cell has no value to hand out without running the getter
IsDirty(c) == ~c.watcher \/ c.dirty

\* variant: evaluate() that leaves the watcher dirty
evaluateStaysDirty(c, d) ==
  [c EXCEPT !.value = userGetter(c.getter, d),
            !.deps = getterReads(c.getter, d),
            !.ran = @ + 1, !.runs = @ + 1]

\* Watcher.evaluate(): value = get(), dirty = false; get() runs the getter
\* and keeps the subscriptions of this run only
evaluate(c, d) ==
  [c EXCEPT !.value = userGetter(c.getter, d),
            !.dirty = FALSE,
            !.deps = getterReads(c.getter, d),
            !.ran = @ + 1, !.runs = @ + 1]

\* if (!watcher) watcher = new Watcher(vm, getter, noopFn, { lazy: true })
withWatcher(c) ==
  IF c.watcher THEN c ELSE [c EXCEPT !.watcher = TRUE, !.dirty = TRUE]

\* computedGetter of both branches: the host's getter of $$state does what
\* the closure of the first branch does, on a watcher made with the host
computedGetter(c, d) ==
  LET w == withWatcher([c EXCEPT !.ran = 0])
  IN  IF w.dirty THEN evaluate(w, d) ELSE w

\* variant: update() of a lazy watcher that does not mark it dirty
updateNotDirty(c, r) == c

\* Watcher.update() of the lazy watcher, called by the Dep of ref r
updateLazy(c, r) ==
  IF c.watcher /\ r \in c.deps THEN [c EXCEPT !.dirty = TRUE] ELSE c

\* the three variables as one record
CState == [cdep |-> cdep, cell |-> cell, clog |-> clog]

CCommit(st) ==
  /\ cdep' = st.cdep
  /\ cell' = st.cell
  /\ clog' = st.clog

\* ref r.value = v: the value changes and the Dep of the ref notifies
setDep(st, r, v) ==
  IF v = st.cdep[r]
    THEN st
    ELSE LET hit == st.cell.watcher /\ r \in st.cell.deps
         IN  [cdep |-> [st.cdep EXCEPT ![r] = v],
              cell |-> [updateLazy(st.cell, r) EXCEPT
                          !.runs = IF hit THEN 0 ELSE @],
              clog |-> [st.clog EXCEPT
                          !.read = IF hit THEN FALSE ELSE @,
                          !.ret = IF hit THEN NoValue ELSE @,
                          !.cycle = IF hit /\ @ = 1 /\ ~st.cell.dirty
                                      THEN 2 ELSE @]]

\* the user setter of the writable cells tried: it stores v in ref 1
userSetter(st, v) ==
  setDep([st EXCEPT !.clog.sets = Append(@, v)], 1, v)

\* variant: the assignment to a cell without setter is dropped silently
computedSetterSilent(st, v) ==
  IF st.cell.setter THEN userSetter(st, v) ELSE st

\* computedSetter of both branches
computedSetter(st, v) ==
  IF DEV /\ ~st.cell.setter
    THEN [st EXCEPT !.clog.warned = @ + 1]
    ELSE IF st.cell.setter THEN userSetter(st, v) ELSE st

\* computed(getterOrOptions), with or without a current instance
Computed(g, hasSetter, host) ==
  /\ ~cell.made
  /\ cell' = [NoCell EXCEPT !.made = TRUE, !.host = host, !.getter = g,
                            !.setter = hasSetter,
                            !.watcher = (host = "fallback"),
                            !.dirty = (host = "fallback")]
  /\ clog' = [NoOp EXCEPT !.op = "computed"]
  /\ UNCHANGED cdep
  /\ UNCHANGED notComputed

\* a read of cell.value outside any watcher
ReadCell ==
  /\ cell.made
  /\ cell.runs < MaxOps
  /\ LET c == computedGetter(cell, cdep)
     IN  /\ cell' = c
         /\ clog' = [clog EXCEPT
                       !.op = "read", !.read = TRUE, !.ret = c.value,
                       !.warned = 0, !.sets = <<>>,
                       !.cycle = IF c.ran = 0 THEN @
                                 ELSE IF @ = 0 THEN 1
                                 ELSE IF @ = 2 THEN 3 ELSE @]
  /\ UNCHANGED cdep
  /\ UNCHANGED notComputed

\* cell.value = v
AssignCell(v) ==
  /\ cell.made
  /\ CCommit(computedSetter(
       [CState EXCEPT !.cell.ran = 0, !.clog.op = "assign",
                      !.clog.warned = 0, !.clog.sets = <<>>], v))
  /\ UNCHANGED notComputed

\* user code changes a ref
WriteDep(r, v) ==
  /\ v # cdep[r]
  /\ CCommit(setDep(
       [CState EXCEPT !.cell.ran = 0, !.clog.op = "write",
                      !.clog.warned = 0, !.clog.sets = <<>>], r, v))
  /\ UNCHANGED notComputed

InitComputed ==
  /\ ScopeInit
  /\ EngineIdle
  /\ DataIdle

NextComputed ==
  \/ \E g \in Getters, hasSetter \in BOOLEAN, host \in {"vm", "fallback"} :
       Computed(g, hasSetter, host)
  \/ ReadCell
  \/ \E v \in CVals : AssignCell(v)
  \/ \E r \in RefIds, v \in CVals : WriteDep(r, v)

SpecComputed == InitComputed /\ [][NextComputed]_vars

(* ========================== reactive containers ======================== *)
Kinds == {"plain", "array", "other"}

\* isRaw(obj)
isRaw(h, o) == h[o].ob /\ h[o].rawflag

\* isReactive(obj)
isReactive(h, o) == h[o].ob /\ ~h[o].rawflag

\* isPlainObject(obj) || isArray(obj)
PlainOrArray(h, o) == h[o].kind \in {"plain", "array"}

\* Vue.observable(obj): an object that has an observer keeps it; a plain
\* object or array that is extensible gets one, its key becomes reactive
\* and the value of the key is observed in turn
RECURSIVE observe(_, _)
observe(h, v) ==
  IF v.t # "obj" THEN h
  ELSE LET o == v.v
       IN  IF h[o].ob \/ ~PlainOrArray(h, o) \/ ~h[o].ext THEN h
           ELSE observe([h EXCEPT ![o].ob = TRUE, ![o].rawflag = FALSE,
                                  ![o].vueR = (h[o].kind = "plain")],
                        h[o].slot)

\* what the property holds: Vue's getter when there is one, else the
\* closure of the proxy, else the data property
stored(h, o) ==
  IF h[o].hasAcc /\ ~h[o].vueR THEN h[o].val ELSE h[o].slot

\* variant: the proxy is defined whatever the key holds
SkipsKey(h, o) == FALSE

\* defineAccessControl: if (isRaw(target[key])) return
SkipsKeyOfRaw(h, o) ==
  LET v == stored(h, o) IN v.t = "obj" /\ isRaw(h, v.v)

RECURSIVE setupAccessControl(_, _)
RECURSIVE defineAccessControl(_, _)

\* setupAccessControl(target)
setupAccessControl(h, v) ==
  IF v.t # "obj" THEN h
  ELSE LET o == v.v
       IN  IF h[o].kind # "plain" \/ isRaw(h, o) \/ h[o].acc THEN h
           ELSE defineAccessControl([h EXCEPT ![o].acc = TRUE], o)

\* defineAccessControl(target, key)
defineAccessControl(h, o) ==
  IF SkipsKeyOfRaw(h, o) THEN h
  ELSE LET val == stored(h, o)
           h1  == setupAccessControl(h, val)
       IN  [h1 EXCEPT ![o].hasAcc = TRUE, ![o].val = val]

\* getterHandler of the proxy, or the property as it is
readKey(h, rv, o) ==
  IF h[o].hasAcc
    THEN LET value == stored(h, o)
         IN  IF value.t = "ref" THEN rv[value.v] ELSE value
    ELSE h[o].slot

\* Vue's setter of a reactive property, or the data property
setSlot(h, o, v) ==
  IF h[o].vueR THEN observe([h EXCEPT ![o].slot = v], v)
  ELSE [h EXCEPT ![o].slot = v]

\* variant: the closure keeps the Ref it was made with
setterHandlerKeepsVal(h, rv, o, newVal) ==
  IF h[o].val.t = "ref" /\ newVal.t # "ref"
    THEN [heap |-> setupAccessControl(h, newVal),
          rval |-> [rv EXCEPT ![h[o].val.v] = newVal]]
    ELSE [heap |-> setupAccessControl(
                     IF h[o].vueR THEN setSlot(h, o, newVal) ELSE h, newVal),
          rval |-> rv]

\* setterHandler of the proxy
setterHandler(h, rv, o, newVal) ==
  IF h[o].val.t = "ref" /\ newVal.t # "ref"
    THEN [heap |-> setupAccessControl(h, newVal),
          rval |-> [rv EXCEPT ![h[o].val.v] = newVal]]
    ELSE [heap |-> setupAccessControl(
                     [(IF h[o].vueR THEN setSlot(h, o, newVal) ELSE h)
                        EXCEPT ![o].val = newVal], newVal),
          rval |-> rv]

\* the least object not yet in use
FreeObj == CHOOSE o \in ObjIds : ~heap[o].alloc /\
             \A p \in ObjIds : ~heap[p].alloc => o <= p

\* the early returns of reactive() and shallowReactive()
ReturnsArg(h, o) == ~PlainOrArray(h, o) \/ isRaw(h, o) \/ ~h[o].ext

\* reactive(obj): the result is obj itself
Reactive(o) ==
  /\ heap[o].alloc
  /\ heap' = IF ReturnsArg(heap, o) THEN heap
             ELSE setupAccessControl(observe(heap, O(o)), O(o))
  /\ last' = NoWrite
  /\ UNCHANGED <<rval, rawSet>>
  /\ UNCHANGED notHeap

\* shallowReactive(obj): the result is obj itself, or a new observed
\* container whose key is a proxy holding the value read from obj
ShallowReactive(o) ==
  /\ heap[o].alloc
  /\ IF ReturnsArg(heap, o)
       THEN heap' = heap
       ELSE /\ \E f \in ObjIds : ~heap[f].alloc
            /\ heap' = [heap EXCEPT ![FreeObj] =
                          [NoObj EXCEPT !.alloc = TRUE, !.kind = heap[o].kind,
                                        !.ob = TRUE,
                                        !.slot = readKey(heap, rval, o),
                                        !.of = o,
                                        !.ofWrapped = isReactive(heap, o)]]
  /\ last' = NoWrite
  /\ UNCHANGED <<rval, rawSet>>
  /\ UNCHANGED notHeap

\* markRaw(obj), on an object of user code
MarkRaw(o) ==
  /\ heap[o].alloc
  /\ heap[o].of = 0
  /\ IF ~PlainOrArray(heap, o) \/ ~heap[o].ext
       THEN UNCHANGED <<heap, rawSet>>
       ELSE /\ heap' = [heap EXCEPT ![o].ob = TRUE, ![o].rawflag = TRUE]
            /\ rawSet' = rawSet \cup {o}
  /\ last' = NoWrite
  /\ UNCHANGED rval
  /\ UNCHANGED notHeap

\* the values user code stores in a key
WriteVals == {P(0), P(1), O(2)} \cup {R(r) : r \in RefIds}

\* target[key] = newVal, on the first object of user code
WriteKey(newVal) ==
  /\ IF heap[1].hasAcc
       THEN LET r == setterHandler(heap, rval, 1, newVal)
            IN  heap' = r.heap /\ rval' = r.rval
       ELSE heap' = setSlot(heap, 1, newVal) /\ rval' = rval
  /\ last' = newVal
  /\ UNCHANGED rawSet
  /\ UNCHANGED notHeap

\* the objects traverse(value) goes into, as the deep getter does
RECURSIVE traverse(_, _, _, _)
traverse(h, raw, v, sn) ==
  IF v.t = "prim" THEN sn
  ELSE IF v.t = "ref" THEN traverse(h, raw, rval[v.v], sn)
  ELSE IF v.v \in sn \/ v.v \in raw THEN sn
  ELSE IF PlainOrArray(h, v.v)
         THEN traverse(h, raw, readKey(h, rval, v.v), sn \cup {v.v})
         ELSE sn \cup {v.v}

\* two objects of user code: any object holding a primitive, the other
\* object or a Ref, and a plain object or array that may point back
InitWrap ==
  /\ ScopeInit
  /\ EngineIdle
  /\ TraverseIdle
  /\ ComputedIdle
  /\ ShallowIdle
  /\ \E k1 \in Kinds, k2 \in {"plain", "array"}, e1 \in BOOLEAN,
        v1 \in {P(0), O(2), R(1)}, v2 \in {P(0), O(1)} :
       heap = [o \in ObjIds |->
                 IF o = 1 THEN [NoObj EXCEPT !.alloc = TRUE, !.kind = k1,
                                             !.ext = e1, !.slot = v1]
                 ELSE IF o = 2 THEN [NoObj EXCEPT !.alloc = TRUE,
                                                  !.kind = k2, !.slot = v2]
                 ELSE NoObj]
  /\ rval = [r \in RefIds |-> P(0)]
  /\ last = NoWrite

NextWrap ==
  \/ \E o \in ObjIds : Reactive(o)
  \/ \E o \in ObjIds : ShallowReactive(o)
  \/ \E o \in ObjIds : MarkRaw(o)

SpecWrap == InitWrap /\ [][NextWrap]_vars

\* a plain object holding a primitive, a plain object or a Ref, and that
\* other object
InitAccess ==
  /\ ScopeInit
  /\ EngineIdle
  /\ TraverseIdle
  /\ ComputedIdle
  /\ ShallowIdle
  /\ \E v1 \in {P(0), O(2), R(1)} :
       heap = [o \in ObjIds |->
                 IF o = 1 THEN [NoObj EXCEPT !.alloc = TRUE, !.slot = v1]
                 ELSE IF o = 2 THEN [NoObj EXCEPT !.alloc = TRUE]
                 ELSE NoObj]
  /\ rval = [r \in RefIds |-> P(0)]
  /\ last = NoWrite

NextAccess ==
  \/ Reactive(1)
  \/ MarkRaw(2)
  \/ \E v \in WriteVals : WriteKey(v)

SpecAccess == InitAccess /\ [][NextAccess]_vars

(* ================= the key of a shallow container ===================== *)
Descriptors == {"data", "getset", "get", "set"}

ShallowVals == 0..MaxShallowVal

\* property.get and property.set of the descriptor of the source's key
propertyGet(kind) == kind \in {"getset", "get"}
propertySet(kind) == kind \in {"getset", "set"}

\* let val = obj[key]: the value of a data property, what the getter of an
\* accessor returns, undefined for an accessor without a getter
ReadSource(kind, src) == IF kind = "set" THEN NoValue ELSE src

\* isForceTrigger()
isForceTrigger(p) == p.force

\* getterHandler of the proxy shallowReactive defines: return val
shallowGetter(p) == p.val

\* setterHandler of the proxy shallowReactive defines
shallowSetter(p, newVal) ==
  IF propertyGet(p.kind) /\ ~propertySet(p.kind) THEN p
  ELSE IF ~isForceTrigger(p) /\ p.val = newVal THEN p
  ELSE IF propertySet(p.kind)
         THEN [p EXCEPT !.src = newVal, !.notified = @ + 1]
         ELSE [p EXCEPT !.val = newVal, !.notified = @ + 1]

\* shallowReactive(obj) for a plain extensible obj whose key has the given
\* descriptor: a key that is not configurable is skipped, any other key
\* gets a proxy whose closure holds the value read from obj
ShallowReactiveKey(kind, conf, v) ==
  /\ ~observed.made
  /\ observed' = [observed EXCEPT
                    !.made = TRUE, !.kind = kind, !.conf = conf, !.src = v,
                    !.proxied = conf,
                    !.val = IF conf THEN ReadSource(kind, v) ELSE NoValue]
  /\ UNCHANGED notShallow

\* observed[key] = newVal
SetShallowKey(newVal) ==
  /\ observed.proxied
  /\ observed' = shallowSetter([observed EXCEPT
                                  !.op = "set", !.arg = newVal,
                                  !.before = shallowGetter(observed),
                                  !.notified = 0, !.result = NoValue],
                               newVal)
  /\ UNCHANGED notShallow

\* observed[key]
GetShallowKey ==
  /\ observed.proxied
  /\ observed' = [observed EXCEPT
                    !.op = "get", !.arg = NoValue, !.before = NoValue,
                    !.notified = 0, !.result = shallowGetter(observed)]
  /\ UNCHANGED notShallow

\* the force-trigger mode is switched on or off
SetForceTrigger(b) ==
  /\ observed.force # b
  /\ observed' = [observed EXCEPT
                    !.force = b, !.op = "none", !.arg = NoValue,
                    !.before = NoValue, !.notified = 0, !.result = NoValue]
  /\ UNCHANGED notShallow

InitShallow == ScopeInit /\ WatchIdle

NextShallow ==
  \/ \E kind \in Descriptors, conf \in BOOLEAN, v \in ShallowVals :
       ShallowReactiveKey(kind, conf, v)
  \/ \E v \in ShallowVals : SetShallowKey(v)
  \/ GetShallowKey
  \/ \E b \in BOOLEAN : SetForceTrigger(b)

SpecShallow == InitShallow /\ [][NextShallow]_vars

(* ================== a reactive object as the watch source ============== *)
\* variant: the deep option decides for every kind of source
deepOfOption(reactive, optDeep) == optDeep

\* let deep = options.deep ... else if (isReactive(source)) deep = true
deepOf(reactive, optDeep) == reactive \/ optDeep

\* the getter of the watcher reads the nested property: the deep getter
\* traverses the source, the plain getter returns it untouched
ReadsNested(wr) == wr.made /\ wr.active /\ wr.reactive /\ wr.deep

\* the Dep of the nested property notifies its subscribers
RECURSIVE notifyNested(_, _)
notifyNested(st, w) ==
  IF w \notin WatchIds THEN st
  ELSE notifyNested(IF ReadsNested(st.ws[w]) THEN update(st, w) ELSE st,
                    w + 1)

\* watch(state, cb, { flush: f, deep: d }) on a reactive object
WatchDeep(f, d) ==
  /\ nextWatch # None
  /\ LET w    == nextWatch
         opt  == [immediate |-> "unset", flush |-> f]
         opts == getWatcherOption(opt)
     IN  Commit(Log([WatcherEnv(CurrentHost) EXCEPT !.ws[w] =
                       [NoWatch EXCEPT
                          !.made = TRUE, !.reactive = TRUE, !.opt = opt,
                          !.immediate = opts.immediate,
                          !.deep = deepOf(TRUE, d),
                          !.flush = opts.flush, !.host = CurrentHost,
                          !.active = TRUE, !.value = Obj, !.init = Obj]],
                    Event("watch", w, 0, "", 0)))
  /\ envInstalled' = EnvAfter(CurrentHost)
  /\ UNCHANGED nsets
  /\ UNCHANGED scopeVars

\* state.a.b = v, a new value for a property of a nested object
SetNested ==
  /\ nsets < MaxSets
  /\ \E w \in WatchIds : ws[w].made
  /\ Commit(notifyNested(Log(Cur, Event("nested", 0, nsets + 1, "", 0)), 1))
  /\ nsets' = nsets + 1
  /\ UNCHANGED envInstalled
  /\ UNCHANGED scopeVars

InitDeep == (ScopeInit \/ InSetup) /\ WatchIdle

NextDeep ==
  \/ \E f \in OptFlush, d \in BOOLEAN : WatchDeep(f, d)
  \/ SetNested
  \/ Tick
  \/ BeforeUpdate
  \/ Updated

SpecDeep == InitDeep /\ [][NextDeep]_vars

(* ======================= a flush mode that is none ===================== *)
\* a flush option that is none of 'pre', 'post', 'sync'
InvalidFlush == "bogus"

InitBadFlush == (ScopeInit \/ InSetup) /\ WatchIdle

NextBadFlush ==
  \/ \E i \in OptImmediate, h \in {"fallback", "vm"} :
       Watch([multi |-> FALSE, srcs |-> <<1>>],
             [immediate |-> i, flush |-> InvalidFlush], h)
  \/ WatchEffect(InvalidFlush, FALSE)
  \/ \E v \in {Undef, Written} : SetRef(1, v)
  \/ Tick

SpecBadFlush == InitBadFlush /\ [][NextBadFlush]_vars

(* ============================== properties ============================ *)
StopInProgress(s) ==
  \E k \in 1..Len(ctl) : ctl[k].kind = "stop" /\ ctl[k].id = s
DestroyInProgress(v) ==
  \E k \in 1..Len(ctl) : ctl[k].kind = "destroy" /\ ctl[k].id = v
Count(q, x) == Cardinality({k \in 1..Len(q) : q[k] = x})

\* C1: once stop() has been called on a scope and no stop() of it is still
\* running, every cleanup registered on it has run exactly once.  (Stated
\* for the plainest case: user code called stop() on the scope exactly once,
\* the cleanup was registered before that, and no user function threw.)
C1_CleanupsRunExactlyOnce ==
  \A s \in ScopeIds : \A k \in 1..Len(scopes[s].cleanups) :
    LET c == scopes[s].cleanups[k] IN
    (/\ scopeInfo[s].stopCalls = 1
     /\ ~StopInProgress(s)
     /\ ~exc /\ ~threw
     /\ ~cleanupInfo[c].late)
    => ran[c] = 1

\* C2: run(fn) on a stopped scope does not invoke fn (no frame is entered),
\* returns undefined, and leaves the scope stack and the current scope alone.
C2_RunOnStoppedScope ==
  [][\A s \in ScopeIds :
       (RunCall(s) /\ ~scopes[s].active)
       => /\ ctl' = ctl
          /\ effectScopeStack' = effectScopeStack
          /\ activeEffectScope' = activeEffectScope
          /\ runResult' = "undefined"]_scopeVars

\* C2 witness: run() was called on a stopped scope and returned undefined
\* while another scope was current.
C2_Witness ==
  /\ runResult = "undefined"
  /\ activeEffectScope # None
  /\ \E s \in Made : ~scopes[s].active

\* C3: when s.run(fn) exits (fn returns or throws), the scope stack and the
\* current scope are what they were immediately before the call.
C3_RunRestoresStack ==
  [][(ctl # <<>> /\ Top.kind = "fn" /\ ctl' = Front(ctl))
       => /\ effectScopeStack' = Top.saved
          /\ activeEffectScope' = Top.savedActive]_scopeVars

\* C4: a scope created non-detached while an active scope P is current is
\* recorded in P.effects; a detached one is recorded nowhere and stays
\* active unless stop() is called on it directly; and when a stop() call on
\* P marks P stopped, every scope that was recorded in P when that call
\* began is stopped and its cleanups (registered before its stop) have run.
C4_Recorded ==
  /\ \A c \in Made :
       (/\ ~scopes[c].bound
        /\ ~scopeInfo[c].detached
        /\ scopeInfo[c].current # None
        /\ scopeInfo[c].currentActive)
       => c \in Range(scopes[scopeInfo[c].current].effects)
  /\ \A d \in Made :
       scopeInfo[d].detached
       => /\ \A p \in ScopeIds : d \notin Range(scopes[p].effects)
          /\ (scopeInfo[d].stopCalls = 0 => scopes[d].active)
C4_StoppedWithParent ==
  \A p \in ScopeIds :
    (scopes[p].active /\ ~scopes'[p].active)
    => /\ Top.kind = "stop" /\ Top.id = p
       /\ \A c \in Range(Top.saved) :
            /\ ~scopes'[c].active
            /\ \A k \in 1..Len(scopes[c].cleanups) :
                 ~cleanupInfo[scopes[c].cleanups[k]].late
                 => ran[scopes[c].cleanups[k]] >= 1
C4_ChildScopes == []C4_Recorded /\ [][C4_StoppedWithParent]_scopeVars

\* C4 witness: P is stopped, a child created while P was current is stopped
\* with it, and a detached scope created while P was current is still active.
C4_Witness ==
  \E p, c, d \in Made :
    /\ ~scopes[p].active
    /\ scopeInfo[c].current = p /\ ~scopeInfo[c].detached
    /\ c \in Range(scopes[p].effects) /\ ~scopes[c].active
    /\ scopeInfo[d].current = p /\ scopeInfo[d].detached
    /\ scopes[d].active

\* C5: (order of stop()) while a cleanup of a scope is running inside its
\* stop(), the scope has not yet been marked stopped: active = false comes
\* only after the last cleanup.  (Stated for scopes on which user code
\* called stop() at most once.)
C5_MarkedStoppedAfterCleanups ==
  \A k \in 1..Len(ctl) :
    (ctl[k].kind = "cleanup" /\ scopeInfo[ctl[k].i].stopCalls <= 1)
    => scopes[ctl[k].i].active

\* the callback of w has not been invoked since w was torn down
NoCallSinceTeardown(w) ==
  LET t == watcherInfo[w].trace IN
  \E i \in 1..Len(t) :
    t[i].e = "teardown" /\ \A j \in (i + 1)..Len(t) : t[j].e # "cb"

\* C6: a watcher created while a scope is current is attached to that
\* scope's host; once the scope has been stopped (and its host's $destroy is
\* over) the watcher is torn down; and the teardown, whether by the scope or
\* by the watcher's own stop handle, leaves an empty cleanup slot and the
\* latest registered cleanup run exactly once.
C6_WatcherStoppedWithScope ==
  \A w \in WatcherIds :
    watchers[w].made =>
      /\ watcherInfo[w].scope # None => watchers[w].vm = watcherInfo[w].scope
      /\ (/\ watcherInfo[w].scope # None
          /\ ~watcherInfo[w].late
          /\ ~scopes[watcherInfo[w].scope].active
          /\ ~DestroyInProgress(watcherInfo[w].scope))
         => ~watchers[w].active
      /\ (~watchers[w].active /\ NoCallSinceTeardown(w))
         => /\ watchers[w].cleanup = None
            /\ \A g \in 1..watcherInfo[w].gen :
                 Count(watcherInfo[w].runs, g) <= 1
            /\ watcherInfo[w].gen > 0
               => Count(watcherInfo[w].runs, watcherInfo[w].gen) = 1

\* C6 witness: a watcher with a registered cleanup was torn down by the stop
\* of the scope that was current at its creation, and the cleanup has run.
C6_Witness ==
  \E w \in WatcherIds :
    /\ watchers[w].made /\ ~watchers[w].active
    /\ watcherInfo[w].scope # None
    /\ ~scopes[watcherInfo[w].scope].active
    /\ watcherInfo[w].gen = 1
    /\ watcherInfo[w].runs = <<1>>

(***************************************************************************)
(* Properties of watcher cleanups (SpecCleanup)                            *)
(***************************************************************************)

\* positions i < j of two consecutive invocations of the callback
NextCall(t, i, j) ==
  /\ i < j
  /\ t[i].e = "cb" /\ t[j].e = "cb"
  /\ \A k \in (i + 1)..(j - 1) : t[k].e # "cb"

\* C11: between two consecutive invocations of a source watch's callback,
\* the cleanup registered during the earlier one runs exactly once, and it
\* runs before the body of the later one; no cleanup ever runs twice.
C11_CleanupBeforeCallback ==
  \A w \in WatcherIds :
    LET t == watcherInfo[w].trace IN
    /\ \A g \in 1..watcherInfo[w].gen : Count(t, Ev("cleanup", g)) <= 1
    /\ \A i, j \in 1..Len(t) :
         (NextCall(t, i, j) /\ t[i].g # None) =>
           Cardinality({k \in (i + 1)..(j - 1) :
                          t[k] = Ev("cleanup", t[i].g)}) = 1

\* C11 witness: a queued callback registered a cleanup, and the next queued
\* invocation ran that cleanup and then the callback body.
C11_Witness ==
  \E w \in WatcherIds :
    /\ watchers[w].made /\ ~Inline(w)
    /\ Len(watcherInfo[w].trace) >= 3
    /\ SubSeq(watcherInfo[w].trace, 1, 2) = <<Ev("cb", 1), Ev("cleanup", 1)>>
    /\ watcherInfo[w].trace[3].e = "cb"

\* a step in which a cleanup that throws was run for watcher w
BadCleanupRan(w) ==
  /\ Len(watcherInfo'[w].runs) = Len(watcherInfo[w].runs) + 1
  /\ Last(watcherInfo'[w].runs) \in watcherInfo[w].bad

C12_Step ==
  \A w \in WatcherIds :
    BadCleanupRan(w) =>
      LET t == watcherInfo[w].trace
          u == watcherInfo'[w].trace
      IN  /\ exc' = exc
          /\ watchers'[w].cleanup # Last(watcherInfo'[w].runs)
          /\ Len(u) = Len(t) + 2
          /\ \/ u[Len(u)].e = "cb"
             \/ u[Len(u) - 1].e = "teardown" /\ ~watchers'[w].active

\* C12: when a registered cleanup throws, nothing propagates: the callback
\* invocation or the teardown that ran it completes, the cleanup slot no
\* longer holds the failing cleanup, and that cleanup is not run again.
C12_CleanupThrowCaught ==
  /\ [][C12_Step]_vars
  /\ [](\A w \in WatcherIds : \A g \in watcherInfo[w].bad :
          Count(watcherInfo[w].runs, g) <= 1)

\* C12 witness: a throwing cleanup ran before a callback body, which then
\* ran, and a later stop handle call found the slot empty.
C12_Witness ==
  \E w \in WatcherIds :
    LET t == watcherInfo[w].trace IN
    /\ ~exc
    /\ Len(t) >= 4
    /\ t[2] = Ev("cleanup", 1) /\ 1 \in watcherInfo[w].bad
    /\ t[3] = Ev("cb", None)
    /\ t[4].e = "teardown"
    /\ watcherInfo[w].runs = <<1>>

\* C13: an invocation of the stop handle leaves the watcher torn down with
\* an empty cleanup slot (the cleanup it held has run), and an invocation
\* after the first runs no cleanup.
C13_StopHandleOnce ==
  [][\A w \in WatcherIds :
       StopHandle(w) =>
         /\ ~watchers'[w].active
         /\ watchers'[w].cleanup = None
         /\ watcherInfo[w].stops >= 1 =>
              watcherInfo'[w].runs = watcherInfo[w].runs]_vars

(***************************************************************************)
(* Properties of the watch engine (SpecWatch)                              *)
(***************************************************************************)

\* nothing is waiting for a tick or a host signal
Flushed ==
  ticks = <<>> /\ vueQueue = <<>> /\ preQueue = <<>> /\ postQueue = <<>>

Args(q) == [i \in 1..Len(q) |-> [w |-> q[i].w, n |-> q[i].n, o |-> q[i].o]]

\* the invocations of w's callback made while watch() was registering it
RegCalls(w) == Args(SelectSeq(calls, LAMBDA c : c.w = w /\ c.reg))

\* the invocations of w's callback made after watch() returned
LaterCalls(w) == Args(SelectSeq(calls, LAMBDA c : c.w = w /\ ~c.reg))

DefaultOptions == [immediate |-> "unset", flush |-> "unset"]

\* C7: a watch(ref, cb) with default options never calls cb before the ref
\* changes; after one change a -> b, once the queues are flushed, cb has been
\* called exactly once, with (b, a).
C7_DefaultWatch ==
  \A w \in WatchIds :
    (ws[w].made /\ ~ws[w].multi /\ ws[w].opt = DefaultOptions) =>
      /\ ws[w].changes = 0 => RegCalls(w) \o LaterCalls(w) = <<>>
      /\ (ws[w].changes = 1 /\ Flushed) =>
           /\ RegCalls(w) = <<>>
           /\ LaterCalls(w) =
                <<[w |-> w, n |-> refs[ws[w].srcs[1]], o |-> ws[w].init]>>
           /\ refs[ws[w].srcs[1]] # ws[w].init

C7_Witness ==
  \E w \in WatchIds :
    /\ ws[w].made /\ ~ws[w].multi /\ ws[w].opt = DefaultOptions
    /\ ws[w].host = "vm"
    /\ ws[w].changes = 1 /\ Flushed
    /\ Len(LaterCalls(w)) = 1

\* C8: a single-source watch with immediate: true is called once while it
\* is registered, with the initial value as new value and undefined as old
\* value, whatever the initial value is.
C8_ImmediateSingle ==
  \A w \in WatchIds :
    (ws[w].made /\ ~ws[w].multi /\ ws[w].immediate) =>
      RegCalls(w) = <<[w |-> w, n |-> ws[w].init, o |-> Undef]>>

\* C9: a multi-source watch with immediate: true is called once while it is
\* registered, with the array of initial values as new value and the empty
\* array as old value, whatever the slots hold and however many there are.
C9_ImmediateMulti ==
  \A w \in WatchIds :
    (ws[w].made /\ ws[w].multi /\ ws[w].immediate) =>
      RegCalls(w) = <<[w |-> w, n |-> ws[w].init, o |-> Arr(<<>>)]>>

\* the runs of w's Vue watcher that called back, as (new, old)
RunsOf(w) == SelectSeq(runLog, LAMBDA r : r.w = w)

SomeSlotDiffers(r) ==
  \E i \in 1..Len(r.n.items) : r.n.items[i] # At(r.o, i)

IsPrefix(p, q) == Len(p) <= Len(q) /\ p = SubSeq(q, 1, Len(p))

\* C10: a multi-source watch without deep calls cb with the full arrays of
\* current and previous values for exactly those runs in which some slot
\* differs from its previous value, in order, and does not call cb for a run
\* in which every slot is the same.
C10_MultiSource ==
  \A w \in WatchIds :
    (ws[w].made /\ ws[w].multi /\ ~ws[w].deep) =>
      /\ IsPrefix(LaterCalls(w), SelectSeq(RunsOf(w), SomeSlotDiffers))
      /\ Flushed => LaterCalls(w) = SelectSeq(RunsOf(w), SomeSlotDiffers)
      /\ \A i \in 1..Len(LaterCalls(w)) :
           /\ Len(LaterCalls(w)[i].n.items) = Len(ws[w].srcs)
           /\ Len(LaterCalls(w)[i].o.items) = Len(ws[w].srcs)

C10_Witness ==
  \E w \in WatchIds :
    /\ ws[w].made /\ ws[w].multi /\ ~ws[w].deep /\ Len(ws[w].srcs) = 2
    /\ Flushed
    /\ Len(LaterCalls(w)) = 1
    /\ LaterCalls(w)[1].n.items[1] # LaterCalls(w)[1].o.items[1]
    /\ LaterCalls(w)[1].n.items[2] = LaterCalls(w)[1].o.items[2]

(* --------------- properties of effects (SpecEffect) ------------------- *)

NoWriter == \A x \in WatchIds : ~ws[x].writes

\* C14: watchEffect(fn) runs fn exactly once, synchronously, while it is
\* being registered, and fn sees the value the ref has then; when every
\* change of the ref was followed by a flush before the next one, fn has run
\* once more per change and has last seen the ref's current value (so one
\* change a -> b and one flush give the observations [a, b]).
C14_EffectRuns ==
  \A w \in WatchIds :
    (ws[w].made /\ ws[w].kind = "effect" /\ NoWriter) =>
      /\ RegCalls(w) = <<[w |-> w, n |-> ws[w].init, o |-> Undef]>>
      /\ (Flushed /\ ws[w].cycles = ws[w].changes) =>
           /\ Len(LaterCalls(w)) = ws[w].changes
           /\ ws[w].changes > 0 => Last(LaterCalls(w)).n = refs[1]

C14_Witness ==
  \E w \in WatchIds :
    /\ ws[w].made /\ ws[w].kind = "effect" /\ NoWriter
    /\ ws[w].host = "vm" /\ ws[w].flush = "pre"
    /\ Flushed
    /\ ws[w].changes = 1 /\ ws[w].cycles = 1
    /\ ws[w].init = Undef
    /\ [i \in 1..2 |-> (RegCalls(w) \o LaterCalls(w))[i].n]
         = <<Undef, Prim("a")>>

IsEv(i, e, w) == flog[i].e = e /\ flog[i].w = w

\* the function of an effect is not entered again before it has returned
NeverReentered ==
  \A w \in WatchIds : \A i, j \in 1..Len(flog) :
    (i < j /\ IsEv(i, "enter", w) /\ IsEv(j, "enter", w)) =>
      \E k \in (i + 1)..(j - 1) : IsEv(k, "leave", w)

\* a notification that reaches an effect while its function runs ends at
\* the running guard before that run returns
TriggersDropped ==
  \A w \in WatchIds : \A i \in 1..Len(flog) :
    IsEv(i, "trigger", w) =>
      \E j \in (i + 1)..Len(flog) :
        /\ IsEv(j, "drop", w)
        /\ \A k \in (i + 1)..(j - 1) : ~IsEv(k, "leave", w)

\* C15: the function of a watchEffect is never entered while a run of the
\* same effect is executing, and a trigger that arrives during a run is
\* dropped: it is not kept for a later run.
C15_ReentrancyDropped == NeverReentered /\ TriggersDropped

(* ------------- properties of the flush queues (SpecFlush) ------------- *)

\* what the schedulers and queues did in the step
NewEvents == SubSeq(flog', Len(flog) + 1, Len(flog'))

Ids(q) == [i \in 1..Len(q) |-> q[i].id]

\* the jobs executed, in order, among the events ev; those of one queue
Execs(ev) == SelectSeq(ev, LAMBDA x : x.e = "exec")

ExecIds(ev) == [i \in 1..Len(Execs(ev)) |-> Execs(ev)[i].id]

ExecsOf(ev, key) == SelectSeq(ev, LAMBDA x : x.e = "exec" /\ x.key = key)

\* the jobs pushed on the queue `key`, in order, among the events ev
EnqsOf(ev, key) == SelectSeq(ev, LAMBDA x : x.e = "enq" /\ x.key = key)

\* the jobs of q that are not the first n
Rest(q, n) == SubSeq(q, n + 1, Len(q))

\* C16: on a host with installed queues, hook:beforeUpdate executes every
\* job waiting in the pre queue and hook:updated every job waiting in the
\* post queue, in order; hook:beforeUpdate executes no post job and leaves
\* the post queue as it was (but for jobs pushed by the jobs it ran), and
\* hook:updated does the same for the pre queue.
C16_HookFlush ==
  [][/\ BeforeUpdate =>
          /\ IsPrefix(Ids(preQueue), ExecIds(NewEvents))
          /\ ExecsOf(NewEvents, "post") = <<>>
          /\ IsPrefix(postQueue, postQueue')
          /\ Len(Rest(postQueue', Len(postQueue)))
               = Len(EnqsOf(NewEvents, "post"))
     /\ Updated =>
          /\ IsPrefix(Ids(postQueue), ExecIds(NewEvents))
          /\ ExecsOf(NewEvents, "pre") = <<>>
          /\ IsPrefix(preQueue, preQueue')
          /\ Len(Rest(preQueue', Len(preQueue)))
               = Len(EnqsOf(NewEvents, "pre"))]_vars

\* hook:beforeUpdate has just run a pre job while a post job was waiting
C16_Witness ==
  /\ envInstalled > 0
  /\ postQueue # <<>>
  /\ preQueue = <<>>
  /\ flog # <<>>
  /\ Last(flog).e = "end" /\ Last(flog).key = "pre"
  /\ \E i \in 1..Len(flog) :
       /\ flog[i].e = "exec" /\ flog[i].key = "pre"
       /\ postQueue[1].id < flog[i].id

\* no effect scope and no component instance is current
NoHost == activeEffectScope = None /\ currentInstance = None

QueuedMode(w) == ws[w].flush # "sync" /\ ~NoHost

C17_FallbackInline ==
  /\ NoHost
  /\ njobs = 0
  /\ \E w, x \in WatchIds :
       /\ ws[w].made /\ ws[w].flush = "pre" /\ ws[w].kind = "source"
       /\ Len(LaterCalls(w)) = 2
       /\ ws[x].made /\ ws[x].flush = "post" /\ ws[x].kind = "effect"
       /\ Len(LaterCalls(x)) = 1

Increasing(q) == \A i, j \in 1..Len(q) : i < j => q[i].id < q[j].id

WaitingIds == Range(Ids(preQueue)) \cup Range(Ids(postQueue))

\* C18: in a tick in which a fallback callback fires, the jobs that were
\* waiting run with every pre job before any post job and each queue in the
\* order of enqueueing (job ids grow with the time of enqueueing), and each
\* drain leaves its queue empty.
C18_FallbackFlush ==
  [][(Tick /\ "fallback" \in Range(ticks)) =>
       /\ SelectSeq(ExecIds(NewEvents), LAMBDA id : id \in WaitingIds)
            = Ids(preQueue) \o Ids(postQueue)
       /\ Increasing(ExecsOf(NewEvents, "pre"))
       /\ Increasing(ExecsOf(NewEvents, "post"))
       /\ \A i \in 1..Len(NewEvents) :
            NewEvents[i].e = "end" => NewEvents[i].len = 0]_vars

\* a tick has passed in which two pre jobs ran and then a post job that
\* was enqueued between them
C18_Witness ==
  /\ preQueue = <<>> /\ postQueue = <<>>
  /\ ticks = <<>> /\ sched = 0
  /\ \E a, b, c \in 2..Len(flog) :
       /\ a < b /\ b < c
       /\ flog[a - 1].e = "begin" /\ flog[a - 1].key = "pre"
       /\ flog[a].e = "exec" /\ flog[a].key = "pre"
       /\ flog[b].e = "exec" /\ flog[b].key = "pre"
       /\ flog[c].e = "exec" /\ flog[c].key = "post"
       /\ flog[a].id < flog[c].id /\ flog[c].id < flog[b].id
       /\ \A k \in a..Len(flog) : flog[k].e # "enq"
       /\ Last(flog).e = "end" /\ Last(flog).key = "post"

\* C19: however many jobs are enqueued on the host during a tick, at most
\* one fallback callback is handed to the host's nextTick in that tick.
C19_OneFallbackPerTick == sched <= 1

\* the drain of queue `key` that begins at event b is still going on at j
InDrain(b, j, key) ==
  /\ b < j
  /\ flog[b].e = "begin" /\ flog[b].key = key
  /\ \A k \in (b + 1)..(j - 1) : ~(flog[k].e = "end" /\ flog[k].key = key)

\* C20: a job pushed on a queue while that queue is being drained is not
\* executed by the drain in progress: every job a drain executes was in the
\* queue when the drain began.
C20_AppendedJobDeferred ==
  \A j \in 1..Len(flog) :
    flog[j].e = "exec" =>
      \A b \in 1..Len(flog) :
        InDrain(b, j, flog[j].key) =>
          \E k \in 1..b : flog[k].e = "enq" /\ flog[k].id = flog[j].id

(* ------------- properties of the deep getter (SpecTraverse) ----------- *)

\* C21: the deep traversal goes into each object at most once, whatever the
\* graph (self-references and shared objects included), and the deep getter
\* returns.
C21_TraverseTerminates ==
  /\ [](\A n \in Nodes : entered[n] <= 1)
  /\ <>(tphase = "done")

\* the traversal of a graph with a self-reference and an object reached
\* twice has returned
C21_Witness ==
  /\ tphase = "done"
  /\ graph[1] = <<1, 2>>
  /\ graph[2] = <<2, 1>>
  /\ rawSet = {}
  /\ entered = [n \in Nodes |-> IF n <= 2 THEN 1 ELSE 0]

\* the refs whose value a step changes
Mutated == {r \in RefIds : cdep'[r] # cdep[r]}

\* C22: for every computed cell, between two reads with no mutation of a
\* dependency in between, the user getter is executed at most once, and
\* both reads return the same cached value.
C22_CacheIdempotent ==
  [][clog'.op = "read" =>
       /\ cell'.runs <= 1
       /\ clog.read => (cell'.ran = 0 /\ clog'.ret = clog.ret)]_vars

C22_Witness ==
  /\ clog.op = "read"
  /\ cell.ran = 0
  /\ cell.runs = 1
  /\ cell.getter = "sum"
  /\ clog.ret = 2

\* C23: a computed cell goes dirty, clean, dirty: computed() does not run
\* the getter; a read of a dirty cell runs it once and leaves the cell
\* clean; a notification from a dependency read in the last evaluation
\* makes the cell dirty without running the getter; and every read returns
\* the value the getter gives on the current values of the refs.
C23_DirtyCleanDirty ==
  [][/\ clog'.op = "computed" => (cell'.ran = 0 /\ IsDirty(cell'))
     /\ clog'.op = "read" =>
          /\ cell'.ran = IF IsDirty(cell) THEN 1 ELSE 0
          /\ ~IsDirty(cell')
          /\ clog'.ret = userGetter(cell'.getter, cdep')
     /\ (cell.watcher /\ Mutated \cap cell.deps # {}) =>
          (cell'.ran = 0 /\ IsDirty(cell') /\ cell'.value = cell.value)]_vars

C23_Witness ==
  /\ clog.cycle = 3
  /\ clog.op = "read"
  /\ cell.ran = 1
  /\ cell.getter = "cond"
  /\ clog.ret = 1

C25_WrapIdempotent ==
  /\ [](\A c, d \in ObjIds :
          (heap[c].of # 0 /\ heap[c].of = heap[d].of) => c = d)
  /\ [](\A c \in ObjIds : heap[c].of # 0 => ~heap[c].ofWrapped)
  /\ [][\A o \in ObjIds :
          (heap[o].alloc /\ ReturnsArg(heap, o)) =>
             \A c \in ObjIds : heap'[c].of = o => heap[c].of = o]_vars

AccessKey == isReactive(heap, 1) /\ heap[1].hasAcc

Pending(w) ==
  \/ w \in Range(vueQueue)
  \/ \E i \in 1..Len(preQueue) : preQueue[i].w = w
  \/ \E i \in 1..Len(postQueue) : postQueue[i].w = w

\* C28: a watcher whose source is a reactive container is deep whatever
\* the deep option says: every change of a nested property made after the
\* watcher was set up is followed by a call of its callback, at once or
\* when what it queued has run.
C28_ReactiveSourceDeep ==
  \A w \in WatchIds :
    (ws[w].made /\ ws[w].reactive) =>
      /\ ws[w].deep
      /\ \A i \in 1..Len(flog) :
           (flog[i].e = "nested" /\ \E k \in 1..(i - 1) : IsEv(k, "watch", w))
             => \/ \E j \in (i + 1)..Len(flog) : IsEv(j, "cb", w)
                \/ Pending(w)

\* inside setup(): the nested property changed after the watcher was made,
\* the Vue watcher ran in the tick, and the job it queued has run
C28_Witness ==
  /\ ws[1].made /\ ws[1].reactive /\ ws[1].host = "vm"
  /\ ws[1].flush = "pre"
  /\ ~Pending(1)
  /\ \E k, i, j \in 1..Len(flog) :
       /\ k < i /\ i < j
       /\ IsEv(k, "watch", 1)
       /\ flog[i].e = "nested"
       /\ IsEv(j, "cb", 1)

\* the events of watcher w in the log
EventsOf(e, w) == {i \in 1..Len(flog) : IsEv(i, e, w)}

\* C29: a flush option that is none of 'pre', 'post', 'sync' ends in the
\* scheduler's assertion on every host, the fallback host included: every
\* time the watcher fires the assertion is raised, no job of the watcher is
\* put on a queue and neither its callback nor its effect is executed (the
\* first call of an immediate watcher and the first run of an effect, made
\* by the registration itself, are left aside).
C29_InvalidFlushAsserts ==
  \A w \in WatchIds :
    (ws[w].made /\ ws[w].flush = InvalidFlush) =>
      /\ EventsOf("enq", w) = {}
      /\ EventsOf("inline", w) = {}
      /\ \A i \in 1..Len(calls) : calls[i].w = w => calls[i].reg
      /\ \A i \in 1..Len(preQueue) : preQueue[i].w # w
      /\ \A i \in 1..Len(postQueue) : postQueue[i].w # w
      /\ ws[w].kind = "source" =>
           Cardinality(EventsOf("assert", w)) = Len(RunsOf(w))

\* C30: when activateCurrentInstance(instance, fn) is over - fn returned,
\* fn threw, or fn threw and onError took the error - getCurrentInstance(),
\* getCurrentScope() and the scope stack are what they were before the
\* call, also when the call was made while run() of an effect scope was in
\* progress on top of the scope of the previous instance.
C30_ActivateRestores ==
  [][(ctl # <<>> /\ Top.kind = "setup" /\ ctl' = Front(ctl))
       => /\ currentInstance' = Top.i
          /\ activeEffectScope' = Top.savedActive
          /\ effectScopeStack' = Top.saved]_scopeVars


(* ------------ what the deep getter reaches (SpecTraverse) -------------- *)

\* the values an object holds: the inner value of a Ref, the elements of
\* an array, the members of a Set or a Map, the properties of a plain object
Children(n) == Range(graph[n])

\* the objects that can be reached from the objects of S without going
\* through an object marked raw
RECURSIVE ReachFrom(_)
ReachFrom(S) ==
  LET T == S \cup {m \in Nodes \ rawSet : \E n \in S : m \in Children(n)}
  IN  IF T = S THEN S ELSE ReachFrom(T)

Reachable == ReachFrom({Root} \ rawSet)

\* C31: when the deep getter returns, the traversal has gone into exactly
\* the objects reachable from the source through inner values, elements,
\* members and properties without passing through an object marked raw
\* (every value such an object holds was handed to traverse(), which leaves
\* an object marked raw at once), and the getter returns the source itself,
\* the value the base getter produced.
C31_TraverseReachesAll ==
  /\ seen \subseteq Reachable
  /\ tphase = "done" => seen = Reachable /\ tret = Root

\* the traversal of a source that holds a primitive and a second object,
\* which points back to the source, has returned
C31_Witness ==
  /\ tphase = "done"
  /\ graph[1] = <<Primitive, 2>>
  /\ graph[2] = <<1>>
  /\ rawSet = {}
  /\ seen = {1, 2}
  /\ tret = Root


(* ------------- accessors of nested objects (SpecAccess) ---------------- *)

\* setupAccessControl has gone through the object
Proxied(h, o) == h[o].acc /\ h[o].hasAcc

\* C32: a nested plain object gets its accessors lazily: neither
\* reactive(obj) nor the assignment of a plain object to a key of a
\* reactive container installs accessors on the nested object in that step.
C32_NestedLazy ==
  [][~Proxied(heap, 2) => ~Proxied(heap', 2)]_vars

(* -------------- cleanups of effects (SpecEffectCleanup) ---------------- *)

\* the runs of the effect of watcher w among the first i events
RunsUpTo(w, i) == Cardinality({j \in 1..i : IsEv(j, "enter", w)})

\* the runs of the cleanup with number g of watcher w among the first i
\* events
CleanupRuns(w, g, i) ==
  Cardinality({j \in 1..i : IsEv(j, "cleanup", w) /\ flog[j].id = g})

\* C33: for watchEffect in every flush mode and on every host, when the
\* effect is run again the cleanup registered during its previous run has
\* been run exactly once; no cleanup is replaced by a later registration
\* without having been run, and none is run twice.
C33_EffectCleanupBeforeRerun ==
  \A w \in WatchIds :
    /\ \A i \in DOMAIN flog :
         (IsEv(i, "enter", w) /\ RunsUpTo(w, i) > 1)
           => CleanupRuns(w, RunsUpTo(w, i) - 1, i) = 1
    /\ \A i \in DOMAIN flog : ~IsEv(i, "replaced", w)
    /\ \A g \in 1..ws[w].gen : CleanupRuns(w, g, Len(flog)) <= 1

(* --------------------- stopped watchers (SpecStop) --------------------- *)

\* C34: after a watcher was stopped, its callback or effect function is not
\* invoked again, whether or not a job of the watcher was waiting in the pre
\* or the post queue at the moment of the stop.
C34_NoCallAfterStop ==
  \A w \in WatchIds : \A i, j \in DOMAIN flog :
    (i < j /\ IsEv(i, "stop", w))
      => ~(IsEv(j, "enter", w) \/ IsEv(j, "cb", w))

(* ------------------ jobs of the queues (SpecQueue) --------------------- *)

\* the executions of the job with number id so far
ExecsOfJob(id) ==
  Cardinality({i \in DOMAIN flog : flog[i].e = "exec" /\ flog[i].id = id})

\* C35: under every interleaving of enqueues, hook:beforeUpdate and
\* hook:updated signals and fallback next ticks on one host, jobs that
\* enqueue further jobs during a drain included, no enqueued job is executed
\* more than once.
C35_JobExecutedOnce ==
  \A id \in 1..njobs : ExecsOfJob(id) <= 1

\* the job with number id has been called by a drain
Executed(id) == \E i \in DOMAIN flog : flog[i].e = "exec" /\ flog[i].id = id

Registering == \E w \in WatchIds : ~ws[w].made /\ ws'[w].made

\* the drains of the queue `key` begun among the events ev
Drains(ev, key) ==
  Len(SelectSeq(ev, LAMBDA x : x.e = "begin" /\ x.key = key))

\* C37: the queues and the two listeners are installed at most once per
\* host: a watcher registered on a host that has its queues leaves both
\* queues as they are and installs nothing, and one update signal of the
\* host begins one drain of its queue.
C37_EnvInstalledOnce ==
  [][/\ envInstalled' <= 1
     /\ (Registering /\ envInstalled > 0)
          => /\ envInstalled' = envInstalled
             /\ preQueue' = preQueue
             /\ postQueue' = postQueue
     /\ BeforeUpdate => Drains(NewEvents, "pre") = 1
     /\ Updated => Drains(NewEvents, "post") = 1]_vars

\* a second watcher was registered while a job of the first one was
\* waiting in a queue of the host, and the job is still there
C37_Witness ==
  /\ envInstalled = 1
  /\ ws[2].made
  /\ \E q \in {preQueue, postQueue} :
       /\ q # <<>>
       /\ q[1].w = 1
       /\ \E i, j \in DOMAIN flog :
            /\ i < j
            /\ flog[i].e = "enq" /\ flog[i].id = q[1].id
            /\ IsEv(j, "enter", 2)

(* ------------------- the current scope (SpecOnOff) --------------------- *)

\* C38: after any sequence of on(), off(), run() and stop() calls on any
\* scopes, getCurrentScope() is the top element of the scope stack, and
\* undefined exactly when the stack is empty.
C38_CurrentScopeIsTop ==
  /\ getCurrentScope = TopOrNone(effectScopeStack)
  /\ getCurrentScope = None <=> effectScopeStack = <<>>

\* a scope was stopped inside its own run(), so the off() of run() did
\* nothing: run() has returned, the stopped scope is still on the stack and
\* is the current scope, while another scope is active
C38_Witness ==
  /\ ctl = <<>>
  /\ effectScopeStack # <<>>
  /\ ~scopes[Last(effectScopeStack)].active
  /\ getCurrentScope = Last(effectScopeStack)
  /\ \E s \in ScopeIds : scopes[s].made /\ scopes[s].active
                         /\ s \notin Range(effectScopeStack)

(* ---------------- effects that throw (SpecEffectThrows) ---------------- *)

\* event i asks for a run of the effect of watcher w: the scheduler calls
\* the getter inline, or a drain calls the queued job
AsksRun(i, w) ==
  IsEv(i, "inline", w) \/ (IsEv(i, "exec", w) /\ flog[i].id # 0)

\* C39: when the function of a watchEffect throws, the re-entrancy flag is
\* cleared as the getter is left, so every later trigger runs the function
\* again: no run asked of such a watcher is dropped.
C39_ThrowClearsRunning ==
  \A w \in WatchIds :
    (ws[w].made /\ ws[w].throws) =>
      /\ ~ws[w].running
      /\ \A i \in DOMAIN flog : ~IsEv(i, "drop", w)
      /\ \A i \in DOMAIN flog :
           AsksRun(i, w) => (i < Len(flog) /\ IsEv(i + 1, "enter", w))

\* the function of an effect threw in one run and was run again, inline
\* for one watcher and from a queue for another
C39_Witness ==
  /\ \E w \in WatchIds : \E i, j, k \in DOMAIN flog :
       /\ i < j /\ j < k
       /\ IsEv(i, "throw", w) /\ IsEv(j, "inline", w) /\ IsEv(k, "throw", w)
  /\ \E w \in WatchIds : \E i, j, k \in DOMAIN flog :
       /\ i < j /\ j < k
       /\ IsEv(i, "throw", w) /\ IsEv(j, "exec", w) /\ IsEv(k, "throw", w)

(* --------------- the key of a shallow container (SpecShallow) ---------- *)

\* the source's key is a data property or an accessor with a setter
Writable(kind) == kind = "data" \/ propertySet(kind)

\* C40: for the key of a shallow-reactive container whose source property
\* is a data property or an accessor with a setter: a write of a value
\* other than the current one notifies exactly once and a read after it
\* gives the written value; a write of the value already stored notifies
\* nobody unless the force-trigger mode is on.
C40_ShallowWrite ==
  (observed.op = "set" /\ Writable(observed.kind)) =>
    /\ observed.arg # observed.before =>
         (observed.notified = 1 /\ shallowGetter(observed) = observed.arg)
    /\ (observed.arg = observed.before /\ ~isForceTrigger(observed)) =>
         observed.notified = 0

====
